---- MODULE Spec2Model ----
(***************************************************************************)
(* Transactional outbox of the library service: the outbox repository     *)
(* (outbox.go), the transactor (transactor.go), the use cases that write  *)
(* an entity and enqueue its event (RegisterAuthor, AddBook) and the      *)
(* delivery workers (outboxImpl.worker), over a store with READ COMMITTED *)
(* transactions and row locks.                                            *)
(***************************************************************************)
EXTENDS Integers, Sequences, FiniteSets, TLC

\* ---------------------------------------------------------------- bounds
MaxId == 1          \* entities the store generates ids for
BatchSize == 1      \* cfg.Outbox.BatchSize
AttemptsRetry == 1  \* cfg.Outbox.AttemptsRetry
LeaseTTL == 1       \* cfg.Outbox.InProgressTTLMS, in clock ticks
MaxFaults == 1      \* store / sink faults injected in one run
MaxCalls == 3       \* repository calls made by the callers of SpecRepo
MaxTime == LeaseTTL + 1

Workers == {"w1", "w2"}
Producers == {"p1"}
Clients == {"c1", "c2"}
Procs == Workers \cup Producers \cup Clients
NoTx == "none"

Names == {"Ada"}

\* ------------------------------------------------- repository/interfaces.go
OutboxKindUndefined == 0
OutboxKindAuthor == 1
OutboxKindBook == 2

OutboxKindString(kind) ==
    CASE kind = OutboxKindAuthor -> "author"
      [] kind = OutboxKindBook -> "book"
      [] OTHER -> "undefined"

\* idempotencyKey := kind.String() + "_" + id
IdempotencyKey(kind, id) == <<OutboxKindString(kind), id>>

Ids == 1..MaxId
KeySeq == [i \in 1..(2 * MaxId) |->
              IF i <= MaxId THEN IdempotencyKey(OutboxKindAuthor, i)
                            ELSE IdempotencyKey(OutboxKindBook, i - MaxId)]
Keys == {KeySeq[i] : i \in 1..(2 * MaxId)}

\* ----------------------------------------------------------------- errors
\* An error is its chain of wrapped messages; nil is the empty chain.
Nil == <<>>
ErrStore == <<"store error">>
ErrSink == <<"Not 2xx response">>
ErrMarshal == <<"json: unsupported value">>
ErrAuthorNotFound == <<"author not found">>

Wrap(msg, err) == <<msg>> \o err

\* errors.Is(err, target): target is err or is wrapped by it
ErrorsIs(err, target) ==
    \E n \in 0..Len(err) : SubSeq(err, n + 1, Len(err)) = target

\* ------------------------------------------------------------------ json
MarshalAuthor(a) == <<"ID", a.id, "Name", a.name>>
UnmarshalAuthor(d) == [id |-> d[2], name |-> d[4]]
MarshalBook(b) == <<"ID", b.id, "Name", b.name, "AuthorIDs", b.authors>>
UnmarshalBook(d) == [id |-> d[2], name |-> d[4], authors |-> d[6]]

\* ------------------------------------------------------- the outbox table
Created == "CREATED"
InProgress == "IN_PROGRESS"
Success == "SUCCESS"
Abandoned == "ABANDONED"
Absent == "ABSENT"

StatusString(s) == s

NoRow == [status |-> Absent, attempts |-> 0, kind |-> 0, data |-> <<>>,
          createdAt |-> 0, updatedAt |-> 0]

VARIABLES
    now,        \* the store's clock
    outbox,     \* committed rows of table outbox, by idempotency_key
    locks,      \* the transaction holding a row's lock (its uncommitted version)
    pending,    \* the uncommitted version of a locked row
    authors,    \* committed rows of table author: id -> name
    books,      \* committed rows of book + author_book: id -> [name, authors]
    nextId,     \* next id the store generates
    enabled,    \* cfg.Outbox.Enabled
    cancelled,  \* ctx.Done() is closed
    faults,     \* faults still to inject
    wpc, wmsgs, wi, successKeys, failKeys, leasedAt,   \* worker locals
    lost,       \* per key: time of a lease whose worker disappeared, or -1
    okCount,    \* per key: handler invocations that returned nil so far
    ppc, pcall, \* use-case call in progress
    txlog,      \* per process: what the current / last WithTx call did
    calls,      \* repository calls made so far by the callers
    cres,       \* the last call of a repository caller and what it returned
    lres,       \* the last call of the library repository and what it returned
    cursor,     \* GetAuthorBooks: booksCursor, the fetched rows, the channel
    cache,      \* the LFU cache: frequency classes, values, size, capacity
    fact,       \* Factorization.Do: its channels, its goroutines, its position
    pool,       \* Pool.List: the layer's input, its workers, the searched nodes
    sink,       \* the HTTP sink: the workers' requests in flight, the handler's results
    conns,      \* the connection pool: its size, the connections each operation holds
    stream      \* getAuthorBooks: the goroutines, the channels and the consumer

dbvars == <<outbox, locks, pending>>
wvars == <<wpc, wmsgs, wi, successKeys, failKeys, leasedAt>>
pvars == <<ppc, pcall, authors, books, nextId>>
vars == <<now, outbox, locks, pending, authors, books, nextId, enabled,
          cancelled, faults, wpc, wmsgs, wi, successKeys, failKeys, leasedAt,
          lost, okCount, ppc, pcall, txlog, calls, cres, lres, cursor, cache, fact, pool,
          sink, conns, stream>>

\* the state outside the outbox service
\* the state of the exercises beside the library service
exvars == <<cache, fact, pool, sink, conns, stream>>
extvars == <<lres, cursor, exvars>>

DB == [o |-> outbox, l |-> locks, p |-> pending]

\* the row version a statement of transaction t sees
View(db, t, k) == IF t # NoTx /\ db.l[k] = t THEN db.p[k] ELSE db.o[k]

LockedByOther(db, t, k) == db.l[k] # NoTx /\ db.l[k] # t

\* a statement's write: into the transaction, or auto-committed
WriteRow(db, t, k, r) ==
    IF t = NoTx
    THEN [db EXCEPT !.o[k] = r]
    ELSE [db EXCEPT !.l[k] = t, !.p[k] = r]

RECURSIVE WriteRows(_, _, _, _)
WriteRows(db, t, ks, f) ==
    IF ks = {} THEN db
    ELSE LET k == CHOOSE x \in ks : TRUE
         IN WriteRows(WriteRow(db, t, k, f[k]), t, ks \ {k}, f)

\* tx.Commit: the transaction's row versions become the committed rows
CommitTx(db, t) ==
    [o |-> [k \in Keys |-> IF db.l[k] = t THEN db.p[k] ELSE db.o[k]],
     l |-> [k \in Keys |-> IF db.l[k] = t THEN NoTx ELSE db.l[k]],
     p |-> [k \in Keys |-> IF db.l[k] = t THEN NoRow ELSE db.p[k]]]

\* tx.Rollback, or the store aborting the transaction of a lost connection
RollbackTx(db, t) ==
    [o |-> db.o,
     l |-> [k \in Keys |-> IF db.l[k] = t THEN NoTx ELSE db.l[k]],
     p |-> [k \in Keys |-> IF db.l[k] = t THEN NoRow ELSE db.p[k]]]

\* outbox.updated_at on a row update
OutboxTouch(r, clock) == [r EXCEPT !.updatedAt = clock]

\* ---------------------------------------------- outboxRepository.SendMessage
\* INSERT ... VALUES($1, $2, 'CREATED', $3, 0) ON CONFLICT DO NOTHING
NewRow(kind, data, clock) ==
    [status |-> Created, attempts |-> 0, kind |-> kind, data |-> data,
     createdAt |-> clock, updatedAt |-> clock]

\* the insert waits for a transaction that holds an uncommitted row of the key
SendBlocked(db, t, key) == db.o[key].status = Absent /\ LockedByOther(db, t, key)

\* an upsert: ON CONFLICT DO UPDATE in place of DO NOTHING
SendMessageUpsert(db, t, key, kind, data, clock) ==
    WriteRow(db, t, key, NewRow(kind, data, clock))

SendMessage(db, t, key, kind, data, clock) ==
    IF View(db, t, key).status # Absent
    THEN db
    ELSE WriteRow(db, t, key, NewRow(kind, data, clock))

\* ---------------------------------------------- outboxRepository.GetMessages
\* a WHERE clause that also selects delivered rows
IsDueOrDelivered(r, clock, ttl) ==
    \/ r.status \in {Created, Success}
    \/ r.status = InProgress /\ r.updatedAt < clock - ttl

\* the lease compared with <= in place of <
IsDueAtTTL(r, clock, ttl) ==
    \/ r.status = Created
    \/ r.status = InProgress /\ r.updatedAt <= clock - ttl

\* status = 'CREATED' OR (status = 'IN_PROGRESS' AND updated_at < now() - ttl)
IsDue(r, clock, ttl) ==
    \/ r.status = Created
    \/ r.status = InProgress /\ r.updatedAt < clock - ttl

\* the subquery without SKIP LOCKED semantics: locked rows are candidates too
SkipLockedNever(db, t, k) == FALSE

\* FOR UPDATE SKIP LOCKED
SkipLocked(db, t, k) == LockedByOther(db, t, k)

DueKeys(db, t, clock, ttl) ==
    {k \in Keys : /\ ~SkipLocked(db, t, k)
                  /\ View(db, t, k).status # Absent
                  /\ IsDue(View(db, t, k), clock, ttl)}

Min(a, b) == IF a <= b THEN a ELSE b

\* the subquery without ORDER BY created_at: any n due rows
BatchesUnordered(db, t, n, clock, ttl) ==
    LET due == DueKeys(db, t, clock, ttl)
    IN {S \in SUBSET due : Cardinality(S) = Min(n, Cardinality(due))}

\* ORDER BY created_at LIMIT n: the batches the store may pick (ties in any order)
Batches(db, t, n, clock, ttl) ==
    LET due == DueKeys(db, t, clock, ttl)
    IN {S \in SUBSET due :
          /\ Cardinality(S) = Min(n, Cardinality(due))
          /\ \A a \in S, b \in due \ S :
                View(db, t, a).createdAt <= View(db, t, b).createdAt}

\* a lease that leaves updated_at as it was
LeaseRowUntouched(r, clock) == [r EXCEPT !.status = InProgress]

\* SET status = 'IN_PROGRESS'
LeaseRow(r, clock) == OutboxTouch([r EXCEPT !.status = InProgress], clock)

GetMessages(db, t, S, clock) ==
    WriteRows(db, t, S, [k \in S |-> LeaseRow(View(db, t, k), clock)])

\* RETURNING idempotency_key, data, kind
Returned(db, t, S) ==
    LET inS(k) == k \in S
        ks == SelectSeq(KeySeq, inS)
    IN [i \in 1..Len(ks) |->
          [IdempotencyKey |-> ks[i], RawData |-> View(db, t, ks[i]).data,
           Kind |-> View(db, t, ks[i]).kind]]

\* --------------------------------------------------- outboxRepository.MarkAs
\* the CASE without the retry ceiling
MarkAsStatusNoCeiling(r, s, retry) == s

\* the ceiling compared with >= in place of >
MarkAsStatusOffByOne(r, s, retry) ==
    IF r.status = InProgress /\ s = Created /\ r.attempts + 1 >= retry
    THEN Abandoned
    ELSE s

\* a CASE that turns every leased row into SUCCESS
MarkAsStatusDelivers(r, s, retry) == IF r.status = InProgress THEN Success ELSE s

MarkAsStatus(r, s, retry) ==
    IF r.status = InProgress /\ s = Created /\ r.attempts + 1 > retry
    THEN Abandoned
    ELSE s

\* an UPDATE that leaves attempts alone
MarkAsAttemptsKept(r, s) == r.attempts

MarkAsAttempts(r, s) ==
    IF r.status = InProgress /\ (s = Created \/ s = Success)
    THEN r.attempts + 1
    ELSE r.attempts

MarkAsRow(r, s, retry, clock) ==
    OutboxTouch([r EXCEPT !.status = MarkAsStatus(r, s, retry),
                          !.attempts = MarkAsAttempts(r, s)], clock)

\* WHERE idempotency_key = ANY($2): the rows the statement sees
MarkTargets(db, t, keys) == {k \in keys : View(db, t, k).status # Absent}

\* the update waits for a transaction that holds the lock of a target row
MarkBlocked(db, t, keys) ==
    \E k \in keys : db.o[k].status # Absent /\ LockedByOther(db, t, k)

MarkAs(db, t, keys, s, retry, clock) ==
    IF keys = {} THEN db
    ELSE LET tg == MarkTargets(db, t, keys)
         IN WriteRows(db, t, tg,
                      [k \in tg |-> MarkAsRow(View(db, t, k), s, retry, clock)])

\* ------------------------------------------------------ transactorImpl.WithTx
NoLog == [begun |-> FALSE, fnCalls |-> 0, commits |-> 0, rollbacks |-> 0,
          fnErr |-> Nil, ret |-> Nil, done |-> FALSE]

\* injectTx failed: return fmt.Errorf("can not inject transaction, error: %w", err)
WithTxBeginFailed == [NoLog EXCEPT !.ret = Wrap("can not inject transaction", ErrStore),
                                   !.done = TRUE]

\* injectTx succeeded: function(ctxWithTx) is running
WithTxBegun == [NoLog EXCEPT !.begun = TRUE, !.fnCalls = 1]

\* a WithTx that returns nil whatever the function returned
WithTxReturnSwallows(fnErr) == Nil

\* the return value: fmt.Errorf("function execution error: %w", err), or nil
WithTxReturn(fnErr) ==
    IF fnErr # Nil THEN Wrap("function execution error", fnErr) ELSE Nil

\* a deferred function that commits whatever txErr is
WithTxDeferredCommits(txErr) == "commit"

\* the deferred function: Rollback when txErr # nil, else Commit
WithTxDeferred(txErr) == IF txErr # Nil THEN "rollback" ELSE "commit"

\* the store after the deferred function; a failed Commit leaves nothing committed
WithTxEndDB(db, t, fnErr, commitOk) ==
    IF WithTxDeferred(WithTxReturn(fnErr)) = "commit" /\ commitOk
    THEN CommitTx(db, t)
    ELSE RollbackTx(db, t)

WithTxEndLog(log, fnErr) ==
    LET ret == WithTxReturn(fnErr)
        d == WithTxDeferred(ret)
    IN [log EXCEPT !.fnErr = fnErr, !.ret = ret, !.done = TRUE,
                   !.commits = IF d = "commit" THEN @ + 1 ELSE @,
                   !.rollbacks = IF d = "rollback" THEN @ + 1 ELSE @]

\* ------------------------------------------------------------ fault choice
FaultChoices == IF faults > 0 THEN {TRUE, FALSE} ELSE {FALSE}
UseFault(f) == faults' = IF f THEN faults - 1 ELSE faults

SetDB(db) == /\ outbox' = db.o
             /\ locks' = db.l
             /\ pending' = db.p

KeysOf(msgs) == {msgs[i].IdempotencyKey : i \in 1..Len(msgs)}


\* --------------------------------------------------------- initial state
EmptyLog == [p \in Procs |-> NoLog]
NoCall == [op |-> "none", name |-> "", aids |-> {}, id |-> 0]
NoRes == [op |-> "none", key |-> <<>>, kind |-> 0, err |-> Nil, msgs |-> <<>>,
          revived |-> {}]
NoName == ""
NoLRes == [op |-> "none", err |-> Nil]
NoCache == [classes |-> <<>>, vals |-> <<>>, size |-> 0, capacity |-> 0,
            panicked |-> FALSE, uses |-> <<>>, recent |-> <<>>]
NoFact == [pc |-> "none"]
NoPool == [pc |-> "none"]
NoSink == [pc |-> "none"]
NoConns == [pc |-> "none"]
NoStream == [pc |-> "none"]
NoCursor == [state |-> "none", author |-> 0, bound |-> {}, rows |-> <<>>,
             batch |-> <<>>, ans |-> <<>>, err |-> Nil]

\* everything but the committed outbox rows and the sink
InitState ==
    /\ now = 0
    /\ locks = [k \in Keys |-> NoTx]
    /\ pending = [k \in Keys |-> NoRow]
    /\ authors = [i \in Ids |-> NoName]
    /\ books = [i \in Ids |-> [name |-> NoName, authors |-> {}]]
    /\ nextId = 1
    /\ enabled \in BOOLEAN
    /\ cancelled = FALSE
    /\ faults = MaxFaults
    /\ wpc = [w \in Workers |-> "top"]
    /\ wmsgs = [w \in Workers |-> <<>>]
    /\ wi = [w \in Workers |-> 0]
    /\ successKeys = [w \in Workers |-> <<>>]
    /\ failKeys = [w \in Workers |-> <<>>]
    /\ leasedAt = [w \in Workers |-> 0]
    /\ lost = [k \in Keys |-> -1]
    /\ okCount = [k \in Keys |-> 0]
    /\ ppc = [p \in Producers |-> "idle"]
    /\ pcall = [p \in Producers |-> NoCall]
    /\ txlog = EmptyLog
    /\ calls = 0
    /\ cres = NoRes
    /\ lres = NoLRes
    /\ cursor = NoCursor
    /\ cache = NoCache
    /\ fact = NoFact
    /\ pool = NoPool
    /\ conns = NoConns
    /\ stream = NoStream

\* everything but the committed outbox rows
InitOther == InitState /\ sink = NoSink

Init == outbox = [k \in Keys |-> NoRow] /\ InitOther

\* ------------------------------------------------------ outboxImpl.worker
\* globalOutboxHandler: the registry lookup
GlobalHandler(kind) ==
    CASE kind = OutboxKindAuthor -> [handler |-> "author", err |-> Nil]
      [] kind = OutboxKindBook -> [handler |-> "book", err |-> Nil]
      [] OTHER -> [handler |-> "none", err |-> <<"unsupported outbox kind">>]

\* a store call made with the worker's ctx fails once ctx is cancelled
StoreFails(f) == f \/ cancelled

WorkerReset(w) ==
    /\ wmsgs' = [wmsgs EXCEPT ![w] = <<>>]
    /\ wi' = [wi EXCEPT ![w] = 0]
    /\ successKeys' = [successKeys EXCEPT ![w] = <<>>]
    /\ failKeys' = [failKeys EXCEPT ![w] = <<>>]
    /\ leasedAt' = [leasedAt EXCEPT ![w] = 0]

\* a select that never takes the case <-ctx.Done()
CtxDoneNever == FALSE

\* case <-ctx.Done(): the channel is closed
CtxDone == cancelled

\* select { case <-ctx.Done(): return; default: time.Sleep(waitTime) }
WTop(w) ==
    /\ wpc[w] = "top"
    /\ wpc' = [wpc EXCEPT ![w] = IF CtxDone THEN "exited" ELSE "slept"]
    /\ txlog' = [txlog EXCEPT ![w] = NoLog]
    /\ UNCHANGED <<extvars, now, dbvars, pvars, enabled, cancelled, faults, wmsgs, wi,
                   successKeys, failKeys, leasedAt, lost, okCount, calls, cres>>

\* a worker that polls whatever the configuration says
OutboxEnabledIgnored == TRUE

\* o.cfg.Outbox.Enabled
OutboxEnabled == enabled

\* the inner select; cfg.Outbox.Enabled; WithTx begins the transaction
WIterate(w, f) ==
    /\ wpc[w] = "slept"
    /\ f \in FaultChoices
    /\ f => ~CtxDone /\ OutboxEnabled
    /\ UseFault(f)
    /\ IF CtxDone
       THEN wpc' = [wpc EXCEPT ![w] = "exited"] /\ UNCHANGED txlog
       ELSE IF ~OutboxEnabled
       THEN wpc' = [wpc EXCEPT ![w] = "top"] /\ UNCHANGED txlog
       ELSE IF f
       THEN /\ wpc' = [wpc EXCEPT ![w] = "top"]
            /\ txlog' = [txlog EXCEPT ![w] = WithTxBeginFailed]
       ELSE /\ wpc' = [wpc EXCEPT ![w] = "get"]
            /\ txlog' = [txlog EXCEPT ![w] = WithTxBegun]
    /\ UNCHANGED <<extvars, now, dbvars, pvars, enabled, cancelled, wmsgs, wi,
                   successKeys, failKeys, leasedAt, lost, okCount, calls, cres>>

\* messages, err := GetMessages(ctx, batchSize, inProgressTTL)
WGet(w, f) ==
    /\ wpc[w] = "get"
    /\ f \in FaultChoices
    /\ UseFault(f)
    /\ IF StoreFails(f)
       THEN /\ wpc' = [wpc EXCEPT ![w] = "end"]
            /\ txlog' = [txlog EXCEPT ![w].fnErr = ErrStore]
            /\ UNCHANGED <<dbvars, wmsgs, wi, successKeys, failKeys, leasedAt>>
       ELSE \E S \in Batches(DB, w, BatchSize, now, LeaseTTL) :
            /\ SetDB(GetMessages(DB, w, S, now))
            /\ wmsgs' = [wmsgs EXCEPT ![w] = Returned(DB, w, S)]
            /\ wi' = [wi EXCEPT ![w] = 1]
            /\ successKeys' = [successKeys EXCEPT ![w] = <<>>]
            /\ failKeys' = [failKeys EXCEPT ![w] = <<>>]
            /\ leasedAt' = [leasedAt EXCEPT ![w] = IF S = {} THEN 0 ELSE now]
            /\ wpc' = [wpc EXCEPT ![w] = IF S = {} THEN "markS" ELSE "handle"]
            /\ UNCHANGED txlog
    /\ UNCHANGED <<extvars, now, pvars, enabled, cancelled, lost, okCount, calls, cres>>

\* one pass of the loop over messages: the lookup, then the handler's answer
HandleMessage(w, ok) ==
    /\ wpc[w] = "handle"
    /\ LET message == wmsgs[w][wi[w]]
           key == message.IdempotencyKey
           gh == GlobalHandler(message.Kind)
       IN /\ gh.err # Nil => ok = FALSE
          /\ IF gh.err # Nil \/ ~ok
             THEN /\ failKeys' = [failKeys EXCEPT ![w] = Append(@, key)]
                  /\ UNCHANGED successKeys
             ELSE /\ successKeys' = [successKeys EXCEPT ![w] = Append(@, key)]
                  /\ UNCHANGED failKeys
          /\ lost' = [lost EXCEPT ![key] = -1]
    /\ wi' = [wi EXCEPT ![w] = @ + 1]
    /\ wpc' = [wpc EXCEPT ![w] = IF wi[w] + 1 > Len(wmsgs[w]) THEN "markS" ELSE "handle"]
    /\ UNCHANGED <<lres, cursor, cache, fact, pool, conns, stream, now, dbvars, pvars,
                   enabled, cancelled, faults, wmsgs, leasedAt, txlog, calls, cres>>

WHandle(w, ok) == HandleMessage(w, ok) /\ UNCHANGED <<okCount, sink>>

\* the same pass with an observer that counts, per key, the invocations of
\* kindHandler that returned nil
WHandleCounted(w, ok) ==
    /\ HandleMessage(w, ok)
    /\ UNCHANGED sink
    /\ LET message == wmsgs[w][wi[w]]
       IN okCount' = IF GlobalHandler(message.Kind).err = Nil /\ ok
                     THEN [okCount EXCEPT ![message.IdempotencyKey] = @ + 1]
                     ELSE okCount

SeqSet(s) == {s[i] : i \in 1..Len(s)}

\* a MarkAs call of the worker: one of the two bulk updates
WMark(w, f, at, keys, s, next) ==
    /\ wpc[w] = at
    /\ f \in FaultChoices
    /\ f => Len(keys) > 0
    /\ UseFault(f)
    /\ ~MarkBlocked(DB, w, SeqSet(keys))
    /\ IF Len(keys) > 0 /\ StoreFails(f)
       THEN /\ wpc' = [wpc EXCEPT ![w] = "end"]
            /\ txlog' = [txlog EXCEPT ![w].fnErr = ErrStore]
            /\ UNCHANGED dbvars
       ELSE /\ SetDB(MarkAs(DB, w, SeqSet(keys), s, AttemptsRetry, now))
            /\ wpc' = [wpc EXCEPT ![w] = next]
            /\ UNCHANGED txlog
    /\ UNCHANGED <<extvars, now, pvars, enabled, cancelled, wmsgs, wi, successKeys,
                   failKeys, leasedAt, lost, okCount, calls, cres>>

\* err = MarkAs(ctx, successKeys, repository.Success)
WMarkSuccess(w, f) == WMark(w, f, "markS", successKeys[w], Success, "markC")

\* err = MarkAs(ctx, failKeys, repository.Created)
WMarkCreated(w, f) == WMark(w, f, "markC", failKeys[w], Created, "end")

\* WithTx's deferred function, then the next round of the loop; a failed
\* Rollback is only logged and the store aborts the transaction all the same
WEnd(w, f) ==
    /\ wpc[w] = "end"
    /\ f \in FaultChoices
    /\ UseFault(f /\ txlog[w].fnErr = Nil)
    /\ SetDB(WithTxEndDB(DB, w, txlog[w].fnErr, ~StoreFails(f)))
    /\ txlog' = [txlog EXCEPT ![w] = WithTxEndLog(@, txlog[w].fnErr)]
    /\ wpc' = [wpc EXCEPT ![w] = "top"]
    /\ WorkerReset(w)
    /\ UNCHANGED <<extvars, now, pvars, enabled, cancelled, lost, okCount, calls, cres>>

\* the worker disappears while it holds leased records: the store aborts
\* the transaction of the lost connection
WCrash(w) ==
    /\ wpc[w] \in {"handle", "markS", "markC", "end"}
    /\ Len(wmsgs[w]) > 0
    /\ \E u \in Workers \ {w} : wpc[u] # "crashed"
    /\ SetDB(RollbackTx(DB, w))
    /\ lost' = [k \in Keys |-> IF k \in KeysOf(wmsgs[w]) THEN leasedAt[w] ELSE lost[k]]
    /\ wpc' = [wpc EXCEPT ![w] = "crashed"]
    /\ txlog' = [txlog EXCEPT ![w] = NoLog]
    /\ WorkerReset(w)
    /\ UNCHANGED <<extvars, now, pvars, enabled, cancelled, faults, okCount, calls, cres>>

\* signal.NotifyContext: SIGINT / SIGTERM
Cancel ==
    /\ ~cancelled
    /\ cancelled' = TRUE
    /\ UNCHANGED <<extvars, now, dbvars, pvars, enabled, faults, wvars, lost, okCount, txlog, calls, cres>>


\* ------------------------------------- libraryImpl.RegisterAuthor / AddBook
KnownAuthors == {i \in Ids : authors[i] # NoName}

KindOf(op) == IF op = "registerAuthor" THEN OutboxKindAuthor ELSE OutboxKindBook

\* err := l.transactor.WithTx(ctx, func(ctx) error { ... }): the transaction begins
PCall(p, op, name, aids, f) ==
    /\ ppc[p] = "idle"
    /\ nextId <= MaxId
    /\ op = "registerAuthor" => aids = {}
    /\ f \in FaultChoices
    /\ UseFault(f)
    /\ IF f
       THEN /\ txlog' = [txlog EXCEPT ![p] = WithTxBeginFailed]
            /\ UNCHANGED <<ppc, pcall>>
       ELSE /\ txlog' = [txlog EXCEPT ![p] = WithTxBegun]
            /\ ppc' = [ppc EXCEPT ![p] = "repo"]
            /\ pcall' = [pcall EXCEPT ![p] = [op |-> op, name |-> name, aids |-> aids, id |-> 0]]
    /\ UNCHANGED <<extvars, now, dbvars, authors, books, nextId, enabled, cancelled,
                   wvars, lost, okCount, calls, cres>>

\* an insert that copies the bindings without the foreign key of author_book
RepoInsertUnchecked(op, name, aids, f) ==
    IF f THEN [err |-> ErrStore, id |-> 0] ELSE [err |-> Nil, id |-> nextId]

\* postgresRepository.RegisterAuthor / AddBook: p.db.Begin, the inserts,
\* tx.Commit, in a transaction of the repository's own
RepoInsert(op, name, aids, f) ==
    IF f THEN [err |-> ErrStore, id |-> 0]
    ELSE IF op = "addBook" /\ ~(aids \subseteq KnownAuthors)
    THEN [err |-> Wrap("Unknown author was", ErrAuthorNotFound), id |-> 0]
    ELSE [err |-> Nil, id |-> nextId]

PRepo(p, f) ==
    /\ ppc[p] = "repo"
    /\ f \in FaultChoices
    /\ UseFault(f)
    /\ LET c == pcall[p]
           r == RepoInsert(c.op, c.name, c.aids, f)
       IN IF r.err # Nil
          THEN /\ txlog' = [txlog EXCEPT ![p].fnErr = r.err]
               /\ ppc' = [ppc EXCEPT ![p] = "end"]
               /\ UNCHANGED <<authors, books, nextId, pcall>>
          ELSE /\ IF c.op = "registerAuthor"
                  THEN /\ authors' = [authors EXCEPT ![r.id] = c.name]
                       /\ UNCHANGED books
                  ELSE /\ books' = [books EXCEPT ![r.id] = [name |-> c.name, authors |-> c.aids]]
                       /\ UNCHANGED authors
               /\ nextId' = nextId + 1
               /\ pcall' = [pcall EXCEPT ![p].id = r.id]
               /\ ppc' = [ppc EXCEPT ![p] = "send"]
               /\ UNCHANGED txlog
    /\ UNCHANGED <<extvars, now, dbvars, enabled, cancelled, wvars, lost, okCount, calls, cres>>

\* a serialization that loses the entity's name
SerializedUnnamed(c) == MarshalAuthor([id |-> c.id, name |-> NoName])

Serialized(c) ==
    IF c.op = "registerAuthor"
    THEN MarshalAuthor([id |-> c.id, name |-> c.name])
    ELSE MarshalBook([id |-> c.id, name |-> c.name, authors |-> c.aids])

\* serialized, txErr := json.Marshal(entity); txErr = SendMessage(ctx, key, kind, serialized)
PSend(p, flt) ==
    /\ ppc[p] = "send"
    /\ flt \in {"none"} \cup (IF faults > 0 THEN {"marshal", "send"} ELSE {})
    /\ UseFault(flt # "none")
    /\ LET c == pcall[p]
           key == IdempotencyKey(KindOf(c.op), c.id)
       IN /\ ~SendBlocked(DB, p, key)
          /\ IF flt = "none"
             THEN /\ SetDB(SendMessage(DB, p, key, KindOf(c.op), Serialized(c), now))
                  /\ UNCHANGED txlog
             ELSE /\ txlog' = [txlog EXCEPT ![p].fnErr =
                                  IF flt = "marshal" THEN ErrMarshal ELSE ErrStore]
                  /\ UNCHANGED dbvars
    /\ ppc' = [ppc EXCEPT ![p] = "end"]
    /\ UNCHANGED <<extvars, now, pcall, authors, books, nextId, enabled, cancelled,
                   wvars, lost, okCount, calls, cres>>

\* WithTx's deferred function; the use case returns
PEnd(p, f) ==
    /\ ppc[p] = "end"
    /\ f \in FaultChoices
    /\ UseFault(f /\ txlog[p].fnErr = Nil)
    /\ SetDB(WithTxEndDB(DB, p, txlog[p].fnErr, ~f))
    /\ txlog' = [txlog EXCEPT ![p] = WithTxEndLog(@, txlog[p].fnErr)]
    /\ ppc' = [ppc EXCEPT ![p] = "idle"]
    /\ pcall' = [pcall EXCEPT ![p] = NoCall]
    /\ UNCHANGED <<extvars, now, authors, books, nextId, enabled, cancelled,
                   wvars, lost, okCount, calls, cres>>

\* ------------------------------------------------------------ the service
Next ==
    \/ \E w \in Workers : WTop(w)
    \/ \E w \in Workers, f \in BOOLEAN : WIterate(w, f)
    \/ \E w \in Workers, f \in BOOLEAN : WGet(w, f)
    \/ \E w \in Workers, ok \in BOOLEAN : WHandle(w, ok)
    \/ \E w \in Workers, f \in BOOLEAN : WMarkSuccess(w, f)
    \/ \E w \in Workers, f \in BOOLEAN : WMarkCreated(w, f)
    \/ \E w \in Workers, f \in BOOLEAN : WEnd(w, f)
    \/ \E w \in Workers : WCrash(w)
    \/ \E p \in Producers, op \in {"registerAuthor", "addBook"}, name \in Names,
          aids \in {{}, {1}}, f \in BOOLEAN : PCall(p, op, name, aids, f)
    \/ \E p \in Producers, f \in BOOLEAN : PRepo(p, f)
    \/ \E p \in Producers, flt \in {"none", "marshal", "send"} : PSend(p, flt)
    \/ \E p \in Producers, f \in BOOLEAN : PEnd(p, f)
    \/ Cancel

\* The clock stands still in Spec: no committed row is ever IN_PROGRESS there,
\* so no lease expires, and rows of equal created_at leave ORDER BY created_at
\* free to pick any of them.
Spec == Init /\ [][Next]_vars

\* ------------------------------------------ callers of the outbox repository
\* A caller of SendMessage / GetMessages / MarkAs, inside WithTx or with no
\* transaction in ctx (extractTx fails, the statement goes to o.db).
\* The store answers every statement of these callers; store errors are
\* injected in Spec, where they decide what WithTx does.
MaxAttempts == AttemptsRetry + 1

\* the callers work on the records of one author and one book
CallerKeys == {IdempotencyKey(kind, 1) : kind \in {OutboxKindAuthor, OutboxKindBook}}

Payloads == {<<OutboxKindAuthor, MarshalAuthor([id |-> 1, name |-> "Ada"])>>,
             <<OutboxKindUndefined, <<"?">> >>}

\* an extractTx that never finds a transaction in ctx
ExtractTxNever(c) == NoTx

\* extractTx(ctx)
ExtractTx(c) == IF txlog[c].begun /\ ~txlog[c].done THEN c ELSE NoTx

\* one caller at a time works inside WithTx; the others' statements are
\* auto-committed and meet its row locks
RBegin(c) ==
    /\ \A d \in Clients : ExtractTx(d) = NoTx
    /\ txlog' = [txlog EXCEPT ![c] = WithTxBegun]
    /\ UNCHANGED <<extvars, now, dbvars, pvars, enabled, cancelled, faults, wvars, lost, okCount, calls, cres>>

REnd(c, fnErr) ==
    /\ ExtractTx(c) = c
    /\ SetDB(WithTxEndDB(DB, c, fnErr, TRUE))
    /\ txlog' = [txlog EXCEPT ![c] = NoLog]
    /\ UNCHANGED <<extvars, now, pvars, enabled, cancelled, faults, wvars, lost, okCount, calls, cres>>

\* txErr as the deferred function reads it while a panic of function(ctxWithTx)
\* unwinds WithTx: no return statement has run, the named result still holds
\* its zero value
WithTxPanicTxErr == Nil

\* function(ctxWithTx) panics: the deferred function runs, then the panic
\* goes on to the caller
RPanic(c) ==
    /\ ExtractTx(c) = c
    /\ SetDB(IF WithTxDeferred(WithTxPanicTxErr) = "commit"
             THEN CommitTx(DB, c)
             ELSE RollbackTx(DB, c))
    /\ txlog' = [txlog EXCEPT ![c] = NoLog]
    /\ UNCHANGED <<extvars, now, pvars, enabled, cancelled, faults, wvars, lost, okCount, calls, cres>>

RSend(c, key, kind, data) ==
    /\ calls < MaxCalls
    /\ calls' = calls + 1
    /\ ~SendBlocked(DB, ExtractTx(c), key)
    /\ SetDB(SendMessage(DB, ExtractTx(c), key, kind, data, now))
    /\ cres' = [NoRes EXCEPT !.op = "sendMessage", !.key = key, !.kind = kind]
    /\ UNCHANGED <<extvars, now, pvars, enabled, cancelled, faults, wvars, lost, okCount, txlog>>

RGet(c, n, S) ==
    /\ calls < MaxCalls
    /\ calls' = calls + 1
    /\ S \in Batches(DB, ExtractTx(c), n, now, LeaseTTL)
    /\ SetDB(GetMessages(DB, ExtractTx(c), S, now))
    /\ cres' = [NoRes EXCEPT
                   !.op = "getMessages",
                   !.msgs = Returned(DB, ExtractTx(c), S),
                   !.revived = {k \in S : View(DB, ExtractTx(c), k).status = InProgress}]
    /\ UNCHANGED <<extvars, now, pvars, enabled, cancelled, faults, wvars, lost, okCount, txlog>>

RMark(c, keys, s) ==
    /\ calls < MaxCalls
    /\ calls' = calls + 1
    /\ ~MarkBlocked(DB, ExtractTx(c), keys)
    /\ \A k \in keys : MarkAsAttempts(View(DB, ExtractTx(c), k), s) <= MaxAttempts
    /\ SetDB(MarkAs(DB, ExtractTx(c), keys, s, AttemptsRetry, now))
    /\ cres' = [NoRes EXCEPT !.op = "markAs"]
    /\ UNCHANGED <<extvars, now, pvars, enabled, cancelled, faults, wvars, lost, okCount, txlog>>

Tick ==
    /\ now < MaxTime
    /\ now' = now + 1
    /\ UNCHANGED <<extvars, dbvars, pvars, enabled, cancelled, faults, wvars, lost, okCount, txlog, calls, cres>>

NextRepo ==
    \/ \E c \in Clients : RBegin(c)
    \/ \E c \in Clients, fnErr \in {Nil, ErrStore} : REnd(c, fnErr)
    \/ \E c \in Clients : RPanic(c)
    \/ \E c \in Clients, key \in CallerKeys, pl \in Payloads :
          RSend(c, key, pl[1], pl[2])
    \/ \E c \in Clients, n \in 1..BatchSize, S \in SUBSET CallerKeys :
          RGet(c, n, S)
    \/ \E c \in Clients, keys \in SUBSET CallerKeys, s \in {Success, Created} :
          RMark(c, keys, s)
    \/ Tick

InitRepo == Init /\ enabled

SpecRepo == InitRepo /\ [][NextRepo]_vars

\* ================================================================ properties
NoBook == [name |-> NoName, authors |-> {}]

HasRecord(kind, id) == outbox[IdempotencyKey(kind, id)].status # Absent

\* C1: once a create use case (registerAuthor, addBook) has returned, the
\* author / book is visible exactly when the outbox holds the record
\* "<kind>_<id>": the entity and its event are committed together or not at all.
C1_EntityIffRecord ==
    (\A p \in Producers : ppc[p] = "idle") =>
        \A id \in Ids :
            /\ authors[id] # NoName <=> HasRecord(OutboxKindAuthor, id)
            /\ books[id] # NoBook <=> HasRecord(OutboxKindBook, id)

\* C2: no two workers hold the same idempotencyKey at a time: the batches
\* that concurrent getMessages calls leased are pairwise disjoint.
C2_DisjointLeases ==
    \A w \in Workers : \A u \in Workers \ {w} :
        KeysOf(wmsgs[w]) \cap KeysOf(wmsgs[u]) = {}

C2_PolledWhileHeld ==
    \E w \in Workers : \E u \in Workers \ {w} :
        /\ wpc[w] = "handle"
        /\ \E k \in KeysOf(wmsgs[w]) : locks[k] = w /\ outbox[k].status = Created
        /\ wpc[u] = "markS" /\ wmsgs[u] = <<>> /\ txlog[u].begun

\* C10: withTx begins one transaction and invokes fn once with it; when fn
\* returns nil the transaction is committed and never rolled back; when fn
\* returns an error it is rolled back, never committed, and withTx returns an
\* error wrapping fn's; when the transaction cannot begin, fn is not invoked
\* and an error is returned.
C10_WithTxOutcome ==
    \A q \in Procs :
        LET log == txlog[q]
        IN /\ log.fnCalls <= 1 /\ log.commits + log.rollbacks <= 1
           /\ log.begun /\ ~log.done => log.fnCalls = 1 /\ log.commits + log.rollbacks = 0
           /\ log.done /\ log.begun /\ log.fnErr = Nil =>
                 /\ log.fnCalls = 1
                 /\ log.commits = 1 /\ log.rollbacks = 0
                 /\ log.ret = Nil
           /\ log.done /\ log.begun /\ log.fnErr # Nil =>
                 /\ log.fnCalls = 1
                 /\ log.rollbacks = 1 /\ log.commits = 0
                 /\ log.ret # Nil /\ log.ret # log.fnErr /\ ErrorsIs(log.ret, log.fnErr)
           /\ log.done /\ ~log.begun =>
                 /\ log.fnCalls = 0
                 /\ log.commits + log.rollbacks = 0
                 /\ log.ret # Nil

C10_AllThreeOutcomes ==
    /\ \E q \in Procs : txlog[q].done /\ txlog[q].begun /\ txlog[q].fnErr # Nil
                        /\ txlog[q].rollbacks = 1
    /\ \E q \in Procs : txlog[q].done /\ txlog[q].begun /\ txlog[q].fnErr = Nil
                        /\ txlog[q].commits = 1
    /\ \E q \in Procs : txlog[q].done /\ ~txlog[q].begun

Terminal(s) == s \in {Success, Abandoned}

\* the newest version of a row: the uncommitted one of the transaction that
\* holds its lock, else the committed one
Cur(k) == IF locks[k] # NoTx THEN pending[k] ELSE outbox[k]
CurNext(k) == IF locks'[k] # NoTx THEN pending'[k] ELSE outbox'[k]

\* the version a statement of transaction t sees after the step
ViewNext(t, k) == IF t # NoTx /\ locks'[k] = t THEN pending'[k] ELSE outbox'[k]

\* a rollback discards the uncommitted version of a row
Discarded(k) == locks[k] # NoTx /\ locks'[k] = NoTx /\ outbox'[k] = outbox[k]

\* the worker's handler is invoked for key k in this step
Handled(w, k) ==
    /\ wpc[w] = "handle"
    /\ wi'[w] = wi[w] + 1
    /\ wmsgs[w][wi[w]].IdempotencyKey = k

\* the handler is about to be invoked for key k
AtHandler(k) ==
    \E w \in Workers : /\ wpc[w] = "handle"
                       /\ wmsgs[w][wi[w]].IdempotencyKey = k

\* C4: Success and Abandoned are absorbing under every sequence of producer
\* and worker steps: a record committed in Success or Abandoned never changes
\* again, no getMessages call returns it and no handler is invoked for it.
C4_TerminalAbsorbing ==
    [][\A k \in Keys :
          Terminal(outbox[k].status) =>
              /\ outbox'[k] = outbox[k]
              /\ \A w \in Workers :
                    /\ k \notin KeysOf(wmsgs[w])
                    /\ k \notin KeysOf(wmsgs'[w])
                    /\ ~Handled(w, k)]_vars

C4_PolledPastTerminal ==
    /\ \E k \in Keys : outbox[k].status = Abandoned
    /\ \A k \in Keys : outbox[k].status \in {Absent, Success, Abandoned}
    /\ \E w \in Workers : wpc[w] = "markS" /\ wmsgs[w] = <<>> /\ txlog[w].begun

\* C5: for every record, attempts never decreases in the committed row, every
\* version has attempts <= attemptsRetry + 1, and attempts changes only in a
\* statement that takes the record out of InProgress (by one), the commit of
\* such a version, or the rollback that discards it.
C5_AttemptsDiscipline ==
    [][\A k \in Keys :
          /\ outbox'[k].attempts >= outbox[k].attempts
          /\ outbox'[k].attempts <= AttemptsRetry + 1
          /\ CurNext(k).attempts <= AttemptsRetry + 1
          /\ CurNext(k).attempts # Cur(k).attempts =>
                \/ Discarded(k)
                \/ /\ Cur(k).status = InProgress
                   /\ CurNext(k).status # InProgress
                   /\ CurNext(k).attempts = Cur(k).attempts + 1
          /\ outbox'[k].attempts # outbox[k].attempts =>
                locks[k] # NoTx /\ outbox'[k] = pending[k]]_vars

C5_CeilingReached ==
    \E k \in Keys : outbox[k].attempts = AttemptsRetry + 1

\* C6: markAs(keys, Created) on a record in InProgress adds one to attempts and
\* sets the status to Abandoned exactly when the new value exceeds
\* attemptsRetry, otherwise to Created; no other statement moves a record to
\* Abandoned.
C6_MarkCreatedOutcome ==
    [][/\ \A w \in Workers, k \in Keys :
             LET r == View(DB, w, k)
                 rn == ViewNext(w, k)
             IN /\ k \in SeqSet(failKeys[w])
                /\ r.status = InProgress
                /\ WMarkCreated(w, FALSE)
                /\ ~cancelled
                => /\ rn.attempts = r.attempts + 1
                   /\ rn.status = IF rn.attempts > AttemptsRetry
                                  THEN Abandoned ELSE Created
       /\ \A k \in Keys :
             /\ Cur(k).status # Abandoned
             /\ CurNext(k).status = Abandoned
             /\ ~Discarded(k)
             => /\ Cur(k).status = InProgress
                /\ \E w \in Workers :
                      k \in SeqSet(failKeys[w]) /\ WMarkCreated(w, FALSE)]_vars

C6_AbandonedInTx ==
    \E w \in Workers, k \in Keys :
        /\ wpc[w] = "end" /\ locks[k] = w /\ k \in SeqSet(failKeys[w])
        /\ outbox[k].status = Created /\ outbox[k].attempts = AttemptsRetry
        /\ pending[k].status = Abandoned /\ pending[k].attempts = AttemptsRetry + 1

\* C7: getMessages(batchSize, leaseTTL) returns only records that were due
\* when selected (an InProgress row whose updatedAt is 2*leaseTTL old is
\* returned when the batch has room, one younger than leaseTTL is not), it
\* returns exactly min(batchSize, number of due records not locked by another
\* transaction) records, and it leaves every returned record InProgress.
C7_GetReturnsDue ==
    [][\A c \in Clients, n \in 1..BatchSize, S \in SUBSET CallerKeys :
          cres'.op = "getMessages" /\ RGet(c, n, S) =>
              LET t == ExtractTx(c)
                  due(r) == \/ r.status = Created
                            \/ r.status = InProgress /\ now - r.updatedAt > LeaseTTL
                  free == {k \in Keys : /\ View(DB, t, k).status # Absent
                                        /\ due(View(DB, t, k))
                                        /\ ~LockedByOther(DB, t, k)}
              IN /\ S \subseteq free
                 /\ Cardinality(S) = Min(n, Cardinality(free))
                 /\ KeysOf(cres'.msgs) = S /\ Len(cres'.msgs) = Cardinality(S)
                 /\ \A k \in S : ViewNext(t, k).status = InProgress
                 /\ \A k \in Keys :
                       LET r == View(DB, t, k)
                       IN /\ r.status = InProgress /\ now - r.updatedAt < LeaseTTL
                             => k \notin S
                          /\ /\ r.status = InProgress
                             /\ now - r.updatedAt >= 2 * LeaseTTL
                             /\ ~LockedByOther(DB, t, k)
                             /\ Cardinality(free) <= n
                             => k \in S]_vars

C7_ExpiredLeaseReturned ==
    /\ cres.op = "getMessages"
    /\ \E k \in cres.revived :
          /\ k \in KeysOf(cres.msgs)
          /\ Cur(k).status = InProgress
          /\ Cur(k).updatedAt = now

\* C8: sendMessage is idempotent per key: a call whose idempotencyKey already
\* exists, with the same or a different payload or kind and whatever the
\* status of the record, returns no error and leaves the record (data, kind,
\* status, attempts) and the number of records unchanged.
C8_SendIdempotent ==
    [][\A c \in Clients, key \in CallerKeys, pl \in Payloads :
          /\ cres'.op = "sendMessage"
          /\ View(DB, ExtractTx(c), key).status # Absent
          /\ RSend(c, key, pl[1], pl[2])
          => /\ cres'.err = Nil
             /\ ViewNext(ExtractTx(c), key) = View(DB, ExtractTx(c), key)
             /\ \A k \in Keys : CurNext(k) = Cur(k) /\ outbox'[k] = outbox[k]]_vars

C8_CollisionOnDelivered ==
    /\ cres.op = "sendMessage" /\ cres.err = Nil
    /\ Cur(cres.key).status = Success
    /\ Cur(cres.key).kind # cres.kind

\* --------------------------------------------- the workers on stored records
\* The workers alone, started on an outbox that already holds records: of a
\* registered kind, or of OutboxKindUndefined, for which globalOutboxHandler
\* returns an error.
SeedKeys == {IdempotencyKey(OutboxKindAuthor, i) : i \in Ids}
SeedKinds == {OutboxKindAuthor, OutboxKindUndefined}

SeededOutbox ==
    \E kinds \in [SeedKeys -> SeedKinds] :
        outbox = [k \in Keys |->
                     IF k \in SeedKeys
                     THEN NewRow(kinds[k], MarshalAuthor([id |-> k[2], name |-> "Ada"]), 0)
                     ELSE NoRow]

InitDelivery == SeededOutbox /\ InitOther /\ enabled

NextDelivery ==
    \/ \E w \in Workers : WTop(w)
    \/ \E w \in Workers, f \in BOOLEAN : WIterate(w, f)
    \/ \E w \in Workers, f \in BOOLEAN : WGet(w, f)
    \/ \E w \in Workers, ok \in BOOLEAN : WHandleCounted(w, ok)
    \/ \E w \in Workers, f \in BOOLEAN : WMarkSuccess(w, f)
    \/ \E w \in Workers, f \in BOOLEAN : WMarkCreated(w, f)
    \/ \E w \in Workers, f \in BOOLEAN : WEnd(w, f)
    \/ \E w \in Workers : WCrash(w)
    \/ Cancel

SpecDelivery == InitDelivery /\ [][NextDelivery]_vars

\* C11: when fn panics inside withTx the transaction is rolled back: Commit is
\* not called, so no write made through the ambient transaction becomes
\* visible (the committed rows are what they were before the panic).
C11_PanicRollsBack ==
    [][\A c \in Clients : RPanic(c) => outbox' = outbox]_vars

\* C12: for every outbox record, the number of handler invocations that return
\* ok, counted over all workers and the whole execution, is at most 1.
C12_AtMostOneOk == \A k \in Keys : okCount[k] <= 1

\* delivery transactions that can have been rolled back so far: one for each
\* store error, one for each worker that disappeared
RolledBack == (MaxFaults - faults) + Cardinality({w \in Workers : wpc[w] = "crashed"})

\* C12 (amended): a handler returns ok again for a record only after the
\* transaction of an earlier ok was rolled back: the ok invocations of a
\* record number at most one more than the rolled-back delivery transactions,
\* and none happens once the record is committed in Success.
C12_OkRepeatsOnlyAfterRollback ==
    \A k \in Keys :
        /\ okCount[k] <= 1 + RolledBack
        /\ outbox[k].status = Success =>
              /\ ~AtHandler(k)
              /\ \A w \in Workers : k \notin SeqSet(successKeys[w])

C12_SecondOkCommitted ==
    \E k \in Keys : okCount[k] = 2 /\ outbox[k].status = Success

\* keys of the messages the loop of worker w has been through
Passed(w) ==
    {wmsgs[w][i].IdempotencyKey : i \in 1..Min(wi[w] - 1, Len(wmsgs[w]))}

\* C13: a record is in Success only if a handler invocation for it returned
\* ok: a record whose registry lookup failed or whose handler returned an
\* error goes to the fail list and never to the success list, and every
\* leased record the loop has been through is in exactly one of the two lists.
C13_SuccessOnlyAfterOk ==
    /\ [](\A k \in Keys : Cur(k).status = Success \/ outbox[k].status = Success
                               => okCount[k] >= 1)
    /\ [](\A w \in Workers :
             /\ SeqSet(successKeys[w]) \cup SeqSet(failKeys[w]) = Passed(w)
             /\ SeqSet(successKeys[w]) \cap SeqSet(failKeys[w]) = {}
             /\ Len(successKeys[w]) + Len(failKeys[w]) = Cardinality(Passed(w))
             /\ \A i \in 1..Len(wmsgs[w]) :
                   GlobalHandler(wmsgs[w][i].Kind).err # Nil =>
                       wmsgs[w][i].IdempotencyKey \notin SeqSet(successKeys[w]))
    /\ [][\A w \in Workers, k \in Keys :
             Handled(w, k) =>
                 IF okCount'[k] = okCount[k] + 1
                 THEN /\ successKeys'[w] = Append(successKeys[w], k)
                      /\ failKeys'[w] = failKeys[w]
                 ELSE /\ failKeys'[w] = Append(failKeys[w], k)
                      /\ successKeys'[w] = successKeys[w]]_vars

C13_FailedThenDelivered ==
    \E k \in Keys : /\ outbox[k].status = Success
                    /\ outbox[k].attempts = 2
                    /\ okCount[k] = 1

\* C14: when registerAuthor (resp. addBook) commits, the outbox holds a record
\* with key "author_<id>" (resp. "book_<id>") for the id the store generated,
\* of kind Author (resp. Book), in Created with attempts 0, whose payload is
\* the serialized entity and deserializes back to the same id and name.
C14_CommitEnqueues ==
    [][\A p \in Producers :
          txlog[p].fnErr = Nil /\ PEnd(p, FALSE) =>
              LET c == pcall[p]
                  kind == KindOf(c.op)
                  key == <<IF c.op = "registerAuthor" THEN "author" ELSE "book", c.id>>
                  r == outbox'[key]
              IN /\ c.id = nextId - 1
                 /\ key = IdempotencyKey(kind, c.id)
                 /\ r.status = Created /\ r.attempts = 0
                 /\ r.kind = IF c.op = "registerAuthor"
                             THEN OutboxKindAuthor ELSE OutboxKindBook
                 /\ IF c.op = "registerAuthor"
                    THEN /\ r.data = MarshalAuthor([id |-> c.id, name |-> c.name])
                         /\ UnmarshalAuthor(r.data).id = c.id
                         /\ UnmarshalAuthor(r.data).name = c.name
                         /\ authors'[c.id] = c.name
                    ELSE /\ r.data = MarshalBook([id |-> c.id, name |-> c.name,
                                                  authors |-> c.aids])
                         /\ UnmarshalBook(r.data).id = c.id
                         /\ UnmarshalBook(r.data).name = c.name
                         /\ books'[c.id].name = c.name]_vars

C14_BookEnqueued ==
    /\ \A p \in Producers : ppc[p] = "idle" /\ txlog[p].done /\ txlog[p].commits = 1
    /\ \E id \in Ids :
          LET r == outbox[IdempotencyKey(OutboxKindBook, id)]
          IN /\ r.status = Created /\ r.attempts = 0 /\ r.kind = OutboxKindBook
             /\ UnmarshalBook(r.data) = [id |-> id, name |-> "Ada", authors |-> {}]
             /\ books[id].name = "Ada"

\* C15: markAs(keys, s), for s = Success or s = Created, leaves every listed
\* record that is already in Success or Abandoned unchanged in status and
\* attempts.
C15_MarkAsKeepsTerminal ==
    [][\A c \in Clients, keys \in SUBSET CallerKeys, s \in {Success, Created} :
          cres'.op = "markAs" /\ RMark(c, keys, s) =>
              \A k \in keys :
                  LET r == View(DB, ExtractTx(c), k)
                      rn == ViewNext(ExtractTx(c), k)
                  IN Terminal(r.status) =>
                         rn.status = r.status /\ rn.attempts = r.attempts]_vars

\* C16: markAs(keys, Success) sets the status to Success and adds one to
\* attempts for exactly the listed records that are InProgress (a record
\* delivered on its first lease ends with attempts = 1); a listed record that
\* is in Created is left unchanged.
C16_MarkSuccessOnlyLeased ==
    [][\A c \in Clients, keys \in SUBSET CallerKeys :
          cres'.op = "markAs" /\ RMark(c, keys, Success) =>
              \A k \in keys :
                  LET r == View(DB, ExtractTx(c), k)
                      rn == ViewNext(ExtractTx(c), k)
                  IN /\ r.status = InProgress =>
                           rn.status = Success /\ rn.attempts = r.attempts + 1
                     /\ r.status = Created =>
                           rn.status = Created /\ rn.attempts = r.attempts]_vars

\* C17: a record whose every delivery attempt fails (handler error or unknown
\* kind) is Abandoned once attemptsRetry worker iterations have failed on it,
\* and is Abandoned with attempts = attemptsRetry.
C17_AbandonedAtRetry ==
    \A k \in Keys :
        okCount[k] = 0 /\ outbox[k].status # Absent =>
            /\ outbox[k].attempts >= AttemptsRetry => outbox[k].status = Abandoned
            /\ outbox[k].status = Abandoned => outbox[k].attempts = AttemptsRetry

\* C17 (amended): a record whose every delivery attempt fails is sent back to
\* Created by each of its first attemptsRetry failed iterations and is
\* Abandoned by the next one: it is Abandoned exactly when attempts =
\* attemptsRetry + 1, never with fewer attempts.
C17_AbandonedPastRetry ==
    \A k \in Keys :
        okCount[k] = 0 /\ outbox[k].status # Absent =>
            /\ outbox[k].attempts <= AttemptsRetry + 1
            /\ outbox[k].attempts <= AttemptsRetry => outbox[k].status = Created
            /\ outbox[k].attempts = AttemptsRetry + 1 => outbox[k].status = Abandoned

C17_EveryAttemptFailed ==
    \E k \in Keys : /\ okCount[k] = 0
                    /\ outbox[k].kind = OutboxKindAuthor
                    /\ outbox[k].status = Abandoned
                    /\ outbox[k].attempts = AttemptsRetry + 1

\* C18: for a leased record whose kind is Undefined or has no registered
\* handler no handler is invoked, and the record is a permanent failure: after
\* the iteration that met the unknown kind is committed the record is
\* non-retryable (Abandoned) and no worker leases it again.
C18_UnknownKindNotRetried ==
    \A k \in Keys :
        outbox[k].status # Absent /\ GlobalHandler(outbox[k].kind).err # Nil =>
            /\ okCount[k] = 0
            /\ outbox[k].attempts >= 1 =>
                  /\ outbox[k].status = Abandoned
                  /\ \A w \in Workers : k \notin KeysOf(wmsgs[w])

\* C19: while outbox.enabled is false no worker opens a boundary or calls
\* getMessages or markAs, so no outbox record changes status or attempts;
\* sendMessage still inserts Created records.
C19_DisabledNoPolling ==
    /\ [](~enabled =>
             /\ \A w \in Workers :
                   /\ wpc[w] \in {"top", "slept", "exited"}
                   /\ txlog[w] = NoLog
                   /\ wmsgs[w] = <<>>
                   /\ \A k \in Keys : locks[k] # w
             /\ \A k \in Keys :
                   /\ outbox[k].status \in {Absent, Created} /\ outbox[k].attempts = 0
                   /\ Cur(k).status \in {Absent, Created} /\ Cur(k).attempts = 0)
    /\ [][~enabled =>
             /\ \A k \in Keys : outbox[k].status # Absent => outbox'[k] = outbox[k]
             /\ \A p \in Producers :
                   PSend(p, "none") =>
                       LET key == IdempotencyKey(KindOf(pcall[p].op), pcall[p].id)
                       IN /\ pending'[key].status = Created
                          /\ pending'[key].attempts = 0
                          /\ locks'[key] = p]_vars

C19_EnqueuedWhileDisabled ==
    /\ ~enabled
    /\ \E k \in Keys : outbox[k].status = Created /\ locks[k] = NoTx
    /\ \E w \in Workers : wpc[w] = "slept"
    /\ \E w \in Workers : wpc[w] = "top"

\* ------------------------------------------------------------ scheduling
\* Each worker is a goroutine that loops until ctx is cancelled, and a use
\* case that has begun runs to its return: the runtime schedules both.
WorkerStep(w) ==
    \/ WTop(w)
    \/ \E f \in BOOLEAN : WIterate(w, f)
    \/ \E f \in BOOLEAN : WGet(w, f)
    \/ \E ok \in BOOLEAN : WHandle(w, ok)
    \/ \E f \in BOOLEAN : WMarkSuccess(w, f)
    \/ \E f \in BOOLEAN : WMarkCreated(w, f)
    \/ \E f \in BOOLEAN : WEnd(w, f)

ProducerStep(p) ==
    \/ \E f \in BOOLEAN : PRepo(p, f)
    \/ \E flt \in {"none", "marshal", "send"} : PSend(p, flt)
    \/ \E f \in BOOLEAN : PEnd(p, f)

\* the service with the outbox enabled and no shutdown signal
InitLive == Init /\ enabled

NextLive ==
    \/ \E w \in Workers : WorkerStep(w)
    \/ \E w \in Workers : WCrash(w)
    \/ \E p \in Producers, op \in {"registerAuthor", "addBook"}, name \in Names,
          aids \in {{}, {1}}, f \in BOOLEAN : PCall(p, op, name, aids, f)
    \/ \E p \in Producers : ProducerStep(p)

SpecLive ==
    /\ InitLive
    /\ [][NextLive]_vars
    /\ \A w \in Workers : WF_vars(WorkerStep(w))
    /\ \A p \in Producers : WF_vars(ProducerStep(p))

\* the workers from start-up to shutdown, the outbox enabled or not; every
\* call a worker makes returns (the store and the sink answer or fail), so a
\* scheduled worker always has a next step
InitShutdown == SeededOutbox /\ InitOther

NextShutdown ==
    \/ \E w \in Workers : WorkerStep(w)
    \/ \E w \in Workers : WCrash(w)
    \/ Cancel

SpecShutdown ==
    /\ InitShutdown
    /\ [][NextShutdown]_vars
    /\ \A w \in Workers : WF_vars(WorkerStep(w))

C9_NoRedeliveryBeforeTTL ==
    \A w \in Workers : \A k \in KeysOf(wmsgs[w]) :
        lost[k] >= 0 => now - lost[k] > LeaseTTL

LibraryIds == {1, 2}
RequestIds == LibraryIds \cup {3}
\* the names stored at the start, and the names a request can carry
LibraryNames == {"Ada"}
RequestNames == {"Bob"}
ErrBookNotFound == <<"book not found">>

\* the state of the outbox service, which the library repository leaves alone
servicevars == <<now, dbvars, nextId, enabled, cancelled, faults, wvars, lost,
                 okCount, ppc, pcall, txlog, cres>>

HasAuthor(id) == id \in DOMAIN authors /\ authors[id] # NoName
HasBook(bk, id) == id \in DOMAIN bk /\ bk[id] # NoBook
\* SELECT author_id FROM author_book WHERE book_id = $1
BookAuthors(bk, id) == IF id \in DOMAIN bk THEN bk[id].authors ELSE {}
\* SELECT book_id FROM author_book WHERE author_id = $1
AuthorBooks(bk, a) == {b \in DOMAIN bk : a \in bk[b].authors}

\* the tables of a library: author_book references stored authors and books
Libraries(as) ==
    [LibraryIds -> {NoBook} \cup
        [name : LibraryNames, authors : SUBSET {a \in LibraryIds : as[a] # NoName}]]

\* the outbox service before start-up: nothing enqueued, nobody running
IdleService ==
    /\ outbox = [k \in Keys |-> NoRow]
    /\ now = 0
    /\ locks = [k \in Keys |-> NoTx]
    /\ pending = [k \in Keys |-> NoRow]
    /\ nextId = 1
    /\ enabled = FALSE
    /\ cancelled = FALSE
    /\ faults = 0
    /\ wpc = [w \in Workers |-> "top"]
    /\ wmsgs = [w \in Workers |-> <<>>]
    /\ wi = [w \in Workers |-> 0]
    /\ successKeys = [w \in Workers |-> <<>>]
    /\ failKeys = [w \in Workers |-> <<>>]
    /\ leasedAt = [w \in Workers |-> 0]
    /\ lost = [k \in Keys |-> -1]
    /\ okCount = [k \in Keys |-> 0]
    /\ ppc = [p \in Producers |-> "idle"]
    /\ pcall = [p \in Producers |-> NoCall]
    /\ txlog = EmptyLog
    /\ cres = NoRes

InitLibrary ==
    /\ IdleService
    /\ authors \in [LibraryIds -> {NoName} \cup LibraryNames]
    /\ books \in Libraries(authors)
    /\ calls = 0
    /\ lres = NoLRes
    /\ cursor = NoCursor
    /\ cache = NoCache
    /\ fact = NoFact
    /\ pool = NoPool
    /\ sink = NoSink
    /\ conns = NoConns
    /\ stream = NoStream

\* postgresRepository.ChangeAuthorInfo: UPDATE author SET name = $1 WHERE id = $2,
\* and the error of Exec alone decides what is returned
ChangeAuthorInfoErr(id) == Nil

ChangeAuthorInfo(id, name) ==
    /\ calls < MaxCalls
    /\ calls' = calls + 1
    /\ authors' = [a \in DOMAIN authors |->
                     IF a = id /\ authors[a] # NoName THEN name ELSE authors[a]]
    /\ lres' = [op |-> "changeAuthorInfo", err |-> ChangeAuthorInfoErr(id)]
    /\ UNCHANGED <<servicevars, books, cursor, exvars>>

\* postgresRepository.UpdateBook, the rows of author_book it deletes:
\* DELETE FROM author_book WHERE author_id = ANY(excessAuthors)
DeletedBindings(b, excess) == excess

\* addBookAuthors: CopyFrom into author_book; a row whose author_id or book_id
\* is not stored violates a foreign key, which errConvert turns into
\* ErrAuthorNotFound
AddBookAuthorsErr(bk, id, newAuthors) ==
    IF newAuthors # {} /\ (~HasBook(bk, id) \/ \E a \in newAuthors : ~HasAuthor(a))
    THEN Wrap("Unknown author was", ErrAuthorNotFound)
    ELSE Nil

\* the tables after UpdateBook's statements: the name, the deletion, the copy
UpdateBookRows(id, name, aids) ==
    LET cur == BookAuthors(books, id)
        newAuthors == aids \ cur
        excessAuthors == cur \ aids
    IN [b \in DOMAIN books |->
          IF books[b] = NoBook THEN NoBook
          ELSE IF b = id
          THEN [name |-> name,
                authors |-> (cur \ DeletedBindings(b, excessAuthors)) \cup newAuthors]
          ELSE [books[b] EXCEPT !.authors = @ \ DeletedBindings(b, excessAuthors)]]

UpdateBook(id, name, aids) ==
    /\ calls < MaxCalls
    /\ calls' = calls + 1
    /\ LET err == AddBookAuthorsErr(books, id, aids \ BookAuthors(books, id))
       IN /\ books' = IF err = Nil THEN UpdateBookRows(id, name, aids) ELSE books
          /\ lres' = [op |-> "updateBook", err |-> err]
    /\ UNCHANGED <<servicevars, authors, cursor, exvars>>

\* postgresRepository.GetBook
GetBook(bk, id) ==
    IF HasBook(bk, id)
    THEN [err |-> Nil, book |-> [id |-> id, name |-> bk[id].name, authors |-> bk[id].authors]]
    ELSE [err |-> ErrBookNotFound, book |-> [id |-> 0, name |-> NoName, authors |-> {}]]

\* const n = 10: the rows one FETCH asks of booksCursor
FetchSize == 10

\* the orders in which a cursor can deliver a set of rows
RowOrders(S) ==
    {q \in [1..Cardinality(S) -> S] : \A i, j \in DOMAIN q : q[i] = q[j] => i = j}

\* postgresRepository.GetAuthorBooks up to its return: Begin, DECLARE booksCursor
\* CURSOR FOR SELECT book_id FROM author_book WHERE author_id = $1; the
\* goroutine is started and (ans, nil) returned
GetAuthorBooks(a) ==
    /\ cursor.state = "none"
    /\ \E q \in RowOrders(AuthorBooks(books, a)) :
          cursor' = [state |-> "open", author |-> a, bound |-> AuthorBooks(books, a),
                     rows |-> q, batch |-> <<>>, ans |-> <<>>, err |-> Nil]
    /\ lres' = [op |-> "getAuthorBooks", err |-> Nil]
    /\ UNCHANGED <<servicevars, authors, books, calls, exvars>>

\* a FETCH that leaves the cursor where it was
CursorFetchRewinds(f) ==
    /\ cursor.state = "open"
    /\ cursor.batch = <<>>
    /\ cursor' = IF f \/ cursor.rows = <<>>
                 THEN [cursor EXCEPT !.state = "closed", !.err = IF f THEN ErrStore ELSE @]
                 ELSE [cursor EXCEPT !.batch = cursor.rows,
                                     !.rows = IF Len(cursor.ans) = 0 THEN @ ELSE <<>>]
    /\ UNCHANGED <<servicevars, authors, books, calls, lres, exvars>>

\* the goroutine's FETCH 10 FROM booksCursor: a failed FETCH ends the goroutine
\* (rollback, close(ans)), no row read ends it with Commit and close(ans)
CursorFetch(f) ==
    /\ cursor.state = "open"
    /\ cursor.batch = <<>>
    /\ LET n == Min(FetchSize, Len(cursor.rows))
       IN cursor' = IF f
                    THEN [cursor EXCEPT !.state = "closed", !.err = ErrStore]
                    ELSE IF n = 0
                    THEN [cursor EXCEPT !.state = "closed"]
                    ELSE [cursor EXCEPT !.batch = SubSeq(cursor.rows, 1, n),
                                        !.rows = SubSeq(cursor.rows, n + 1, Len(cursor.rows))]
    /\ UNCHANGED <<servicevars, authors, books, calls, lres, exvars>>

\* one row of the batch: book, _ := p.GetBook(ctx, id); ans <- book
CursorYield(f) ==
    /\ cursor.state = "open"
    /\ cursor.batch # <<>>
    /\ LET r == IF f THEN GetBook(books, 0) ELSE GetBook(books, Head(cursor.batch))
       IN cursor' = [cursor EXCEPT !.batch = Tail(cursor.batch),
                                   !.ans = Append(cursor.ans, r.book),
                                   !.err = IF f THEN ErrStore ELSE @]
    /\ UNCHANGED <<servicevars, authors, books, calls, lres, exvars>>

NextLibrary ==
    \/ \E id \in RequestIds : \E name \in RequestNames : ChangeAuthorInfo(id, name)
    \/ \E id \in RequestIds : \E name \in RequestNames : \E aids \in SUBSET RequestIds :
          UpdateBook(id, name, aids)
    \/ \E a \in RequestIds : GetAuthorBooks(a)
    \/ \E f \in BOOLEAN : CursorFetch(f)
    \/ \E f \in BOOLEAN : CursorYield(f)

SpecLibrary == InitLibrary /\ [][NextLibrary]_vars

\* the not-found condition of the service: either entity's not-found error
NotFound(err) == ErrorsIs(err, ErrAuthorNotFound) \/ ErrorsIs(err, ErrBookNotFound)

\* C21: a mutation addressed to an id the store does not know returns the
\* not-found condition and changes nothing: changeAuthorInfo with an unknown
\* author id and updateBook with an unknown book id are never ok.
C21_UnknownIdNotFound ==
    [][/\ \A id \in RequestIds : \A name \in RequestNames :
            ChangeAuthorInfo(id, name) /\ ~HasAuthor(id)
                => NotFound(lres'.err) /\ authors' = authors /\ books' = books
       /\ \A id \in RequestIds : \A name \in RequestNames : \A aids \in SUBSET RequestIds :
            UpdateBook(id, name, aids) /\ ~HasBook(books, id)
                => NotFound(lres'.err) /\ authors' = authors /\ books' = books]_vars

\* C22: addBook whose authorIds contain an id of no stored author fails with
\* authorNotFound, and no book row, no author binding and no outbox record of
\* that call exists afterwards: the repository step and the end of the
\* boundary leave the tables and the outbox as they were.
C22_UnknownAuthorAddsNothing ==
    [][\A p \in Producers :
          pcall[p].op = "addBook" /\ ~(pcall[p].aids \subseteq KnownAuthors) =>
             /\ PRepo(p, FALSE) =>
                   /\ ErrorsIs(txlog'[p].fnErr, ErrAuthorNotFound)
                   /\ ppc'[p] = "end"
                   /\ UNCHANGED <<authors, books, nextId, dbvars>>
             /\ PEnd(p, FALSE) /\ ErrorsIs(txlog[p].fnErr, ErrAuthorNotFound) =>
                   /\ ErrorsIs(txlog'[p].ret, ErrAuthorNotFound)
                   /\ txlog'[p].rollbacks = 1 /\ txlog'[p].commits = 0
                   /\ UNCHANGED <<authors, books, nextId, outbox>>
                   /\ \A k \in Keys : pending'[k] = NoRow \/ locks'[k] # p]_vars

\* an addBook naming an unknown author has returned authorNotFound
C22_AddBookRefused ==
    \E p \in Producers :
        /\ ppc[p] = "idle" /\ txlog[p].done
        /\ ErrorsIs(txlog[p].ret, ErrAuthorNotFound)
        /\ \A i \in Ids : books[i] = NoBook
        /\ \A i \in Ids : outbox[IdempotencyKey(OutboxKindBook, i)] = NoRow

RowIds(q) == {q[i] : i \in DOMAIN q}
BookIds(q) == {q[i].id : i \in DOMAIN q}

\* C24: getAuthorBooks(authorId) yields every book bound to that author
\* exactly once and then ends: while no statement of the stream fails, the
\* rows still in the cursor, the fetched rows and the books sent partition
\* the books bound at the call, so each send uses one up and the closed
\* stream has sent each exactly once; for an author id unknown to the store
\* the call returns no error and the stream closes without a book.
C24_StreamYieldsEachOnce ==
    cursor.state # "none" /\ cursor.err = Nil =>
        /\ Len(cursor.rows) + Len(cursor.batch) + Len(cursor.ans) = Cardinality(cursor.bound)
        /\ RowIds(cursor.rows) \cup RowIds(cursor.batch) \cup BookIds(cursor.ans) = cursor.bound
        /\ cursor.state = "closed" =>
              /\ cursor.rows = <<>> /\ cursor.batch = <<>>
              /\ BookIds(cursor.ans) = cursor.bound
              /\ Len(cursor.ans) = Cardinality(cursor.bound)
        /\ cursor.state = "open" => (ENABLED CursorFetch(FALSE)) \/ (ENABLED CursorYield(FALSE))
        /\ ~HasAuthor(cursor.author) => cursor.bound = {} /\ cursor.ans = <<>>

\* a stream of two books has ended
C24_TwoBooksStreamed ==
    /\ cursor.state = "closed" /\ cursor.err = Nil
    /\ HasAuthor(cursor.author)
    /\ Len(cursor.ans) = 2 /\ BookIds(cursor.ans) = LibraryIds

\* ---------------------------------------------------------------------------
\* The LFU cache
\* ---------------------------------------------------------------------------

MaxCapacity == 2
MaxFrequency == 3
LfuKeys == 1..(MaxCapacity + 1)
LfuVals == {"v", "w"}
NoVal == ""

\* the state of the library service, which the exercises leave alone
libvars == <<authors, books, calls, lres, cursor>>
\* the sink, the connection pool and the stream, which the exercises leave alone
appvars == <<sink, conns, stream>>

\* New(capacity): panics when capacity < 0; frequencyClasses holds one empty
\* class of frequency 1
New(capacity) ==
    [classes |-> <<[frequency |-> 1, lst |-> <<>>]>>,
     vals |-> [k \in LfuKeys |-> NoVal],
     size |-> 0, capacity |-> capacity, panicked |-> FALSE,
     uses |-> [k \in LfuKeys |-> 0], recent |-> <<>>]

\* list operations on sequences: index 1 is Front(), the last index is Back()
Without(q, x) == SelectSeq(q, LAMBDA y : y # x)
RemoveAt(q, i) == SubSeq(q, 1, i - 1) \o SubSeq(q, i + 1, Len(q))
InsertAt(q, i, x) == SubSeq(q, 1, i - 1) \o <<x>> \o SubSeq(q, i, Len(q))

\* keyNode.Data.nodeFreqClass: the class whose list holds the key
ClassOf(c, k) == CHOOSE i \in DOMAIN c.classes : \E j \in DOMAIN c.classes[i].lst :
                                                     c.classes[i].lst[j] = k

\* cacheImpl.GetKeyFrequency of a key in the cache
GetKeyFrequency(c, k) == c.classes[ClassOf(c, k)].frequency

\* cacheImpl.increaseFreqOfKey: the classes afterwards
IncreaseFreqOfKey(c, k) ==
    LET i == ClassOf(c, k)
        cur == c.classes[i]
    IN IF i > 1 /\ c.classes[i - 1].frequency = cur.frequency + 1
       THEN LET moved == [c.classes EXCEPT ![i - 1].lst = <<k>> \o @,
                                           ![i].lst = Without(@, k)]
            IN IF moved[i].lst = <<>> THEN RemoveAt(moved, i) ELSE moved
       ELSE IF Len(cur.lst) = 1
       THEN [c.classes EXCEPT ![i].frequency = @ + 1]
       ELSE InsertAt([c.classes EXCEPT ![i].lst = Without(@, k)], i,
                     [frequency |-> cur.frequency + 1, lst |-> <<k>>])

\* the use history kept beside the cache: uses of each key since it came in,
\* and the keys from the most to the least recently used
Used(c, k) ==
    [c EXCEPT !.uses[k] = @ + 1, !.recent = <<k>> \o Without(@, k)]

\* cacheImpl.Get of a key in the cache (any other Get returns ErrKeyNotFound
\* and changes nothing)
Get(k) ==
    /\ ~cache.panicked
    /\ cache.vals[k] # NoVal
    /\ cache.uses[k] < MaxFrequency
    /\ cache' = Used([cache EXCEPT !.classes = IncreaseFreqOfKey(cache, k)], k)
    /\ UNCHANGED <<servicevars, libvars, fact, pool, appvars>>

\* cacheImpl.Put of a key that is not in the cache: the cache afterwards.
\* leastFreqLst.PopBack() is nil on an empty list, and .Data panics on nil.
PutNew(c, k, v) ==
    LET n == Len(c.classes)
        least == c.classes[n]
        full == c.size = c.capacity
    IN IF full /\ least.lst = <<>>
       THEN [c EXCEPT !.panicked = TRUE]
       ELSE LET victim == least.lst[Len(least.lst)]
                lst == IF full THEN SubSeq(least.lst, 1, Len(least.lst) - 1) ELSE least.lst
                popped == [c.classes EXCEPT ![n].lst = lst]
                classes == IF least.frequency > 1
                           THEN IF lst # <<>>
                                THEN Append(popped, [frequency |-> 1, lst |-> <<>>])
                                ELSE [popped EXCEPT ![n].frequency = 1]
                           ELSE popped
                m == Len(classes)
            IN [c EXCEPT !.classes = [classes EXCEPT ![m].lst = <<k>> \o @],
                         !.vals = [x \in LfuKeys |->
                                     IF x = k THEN v
                                     ELSE IF full /\ x = victim THEN NoVal ELSE @[x]],
                         !.size = IF full THEN @ ELSE @ + 1,
                         !.uses = [x \in LfuKeys |->
                                     IF x = k THEN 1
                                     ELSE IF full /\ x = victim THEN 0 ELSE @[x]],
                         !.recent = <<k>> \o
                                    (IF full THEN Without(@, victim) ELSE @)]

\* cacheImpl.Put
Put(k, v) ==
    /\ ~cache.panicked
    /\ cache.uses[k] < MaxFrequency
    /\ cache' = IF cache.vals[k] # NoVal
                THEN Used([cache EXCEPT !.vals[k] = v,
                                        !.classes = IncreaseFreqOfKey(cache, k)], k)
                ELSE PutNew(cache, k, v)
    /\ UNCHANGED <<servicevars, libvars, fact, pool, appvars>>

\* an empty library, no call made
IdleLibrary ==
    /\ authors = [i \in LibraryIds |-> NoName]
    /\ books = [i \in LibraryIds |-> NoBook]
    /\ calls = 0
    /\ lres = NoLRes
    /\ cursor = NoCursor

\* no request to the sink, no connection and no stream in use
IdleApp ==
    /\ sink = NoSink
    /\ conns = NoConns
    /\ stream = NoStream

InitLfu ==
    /\ IdleService
    /\ IdleLibrary
    /\ IdleApp
    /\ cache \in {New(capacity) : capacity \in 0..MaxCapacity}
    /\ fact = NoFact
    /\ pool = NoPool

NextLfu ==
    \/ \E k \in LfuKeys : Get(k)
    \/ \E k \in LfuKeys : \E v \in LfuVals : Put(k, v)

SpecLfu == InitLfu /\ [][NextLfu]_vars

\* the keys in the cache, and where a key stands in the use history
Present(c) == {k \in LfuKeys : c.vals[k] # NoVal}
Recency(c, k) == CHOOSE i \in DOMAIN c.recent : c.recent[i] = k

\* the key a full cache has to give up: of minimum frequency and, among
\* those, the least recently used
IsLfuVictim(c, x) ==
    /\ x \in Present(c)
    /\ \A y \in Present(c) : GetKeyFrequency(c, x) <= GetKeyFrequency(c, y)
    /\ \A y \in Present(c) :
          GetKeyFrequency(c, y) = GetKeyFrequency(c, x) => Recency(c, y) <= Recency(c, x)

\* C25: Put of a key that is not in the cache when Size() = Capacity()
\* removes exactly one key, of minimum frequency and among those the least
\* recently used, and inserts the new key with frequency 1; Put of a key in
\* the cache only replaces its value and raises its frequency by one; Get of
\* a key in the cache raises its frequency by one.
C25_PutEvictsLfu ==
    [][/\ \A k \in LfuKeys : \A v \in LfuVals :
            Put(k, v) /\ k \notin Present(cache) /\ cache.size = cache.capacity =>
               /\ ~cache'.panicked
               /\ \E x \in Present(cache) :
                     /\ IsLfuVictim(cache, x)
                     /\ Present(cache') = (Present(cache) \ {x}) \cup {k}
               /\ cache'.vals[k] = v /\ GetKeyFrequency(cache', k) = 1
               /\ \A y \in Present(cache') \ {k} :
                     /\ cache'.vals[y] = cache.vals[y]
                     /\ GetKeyFrequency(cache', y) = GetKeyFrequency(cache, y)
       /\ \A k \in LfuKeys : \A v \in LfuVals :
            Put(k, v) /\ k \in Present(cache) =>
               /\ cache'.vals = [cache.vals EXCEPT ![k] = v]
               /\ GetKeyFrequency(cache', k) = GetKeyFrequency(cache, k) + 1
               /\ \A y \in Present(cache) \ {k} :
                     GetKeyFrequency(cache', y) = GetKeyFrequency(cache, y)
       /\ \A k \in LfuKeys :
            Get(k) =>
               /\ cache'.vals = cache.vals
               /\ GetKeyFrequency(cache', k) = GetKeyFrequency(cache, k) + 1
               /\ \A y \in Present(cache) \ {k} :
                     GetKeyFrequency(cache', y) = GetKeyFrequency(cache, y)]_vars

\* the same contract for caches of capacity 1 and more, and the frequency of
\* every key as the number of its uses since it came in
LfuContractPositiveCapacity == [][cache.capacity > 0 => C25_PutEvictsLfu!1]_vars
LfuFrequencyCountsUses == \A k \in Present(cache) : GetKeyFrequency(cache, k) = cache.uses[k]

\* ---------------------------------------------------------------------------
\* Factorization.Do: numbers -> numCh -> factorization workers -> result ->
\* write workers -> writer
\* ---------------------------------------------------------------------------

MaxWorkers == 2
MaxNumbers == 2
FactWorkers == 1..MaxWorkers
WriteWorkers == 1..MaxWorkers
ErrFactorizationCancelled == <<"cancelled">>
ErrWriterInteraction == <<"writer interaction">>
\* fmt.Errorf("%w caused by %w", ErrWriterInteraction, errWriter)
ErrWriterCaused == Wrap("caused by the writer's error", ErrWriterInteraction)

\* Do after makeConfig and convertNumToFact: conf.FactorizationWorkers
\* goroutines read numCh, the write workers are not started yet
DoCalled(numbers, nf, nw) ==
    [pc |-> "start", ret |-> Nil, numbers |-> numbers, i |-> 0,
     numCh |-> <<>>, numClosed |-> FALSE,
     fw |-> [f \in FactWorkers |-> IF f <= nf THEN [pc |-> "select", v |-> 0]
                                  ELSE [pc |-> "off", v |-> 0]],
     resultClosed |-> FALSE,
     ww |-> [w \in WriteWorkers |-> IF w <= nw THEN [pc |-> "unborn", v |-> 0]
                                   ELSE [pc |-> "off", v |-> 0]],
     err |-> <<>>, doneCauseErrWriter |-> FALSE, done |-> FALSE,
     failed |-> FALSE, written |-> {}]

InitFact ==
    /\ IdleService
    /\ IdleLibrary
    /\ IdleApp
    /\ cache = NoCache
    /\ pool = NoPool
    /\ fact \in {DoCalled([i \in 1..n |-> i], nf, nw) :
                    n \in 0..MaxNumbers, nf \in FactWorkers, nw \in WriteWorkers}

FactStep(next) ==
    /\ fact.pc # "none"
    /\ fact' = next
    /\ UNCHANGED <<servicevars, libvars, cache, pool, appvars>>

Finished(workers) == \A x \in DOMAIN workers : workers[x].pc \in {"off", "unborn", "exited"}

\* the caller closes done
CloseDone ==
    /\ fact.pc \notin {"none", "returned"}
    /\ ~fact.done
    /\ FactStep([fact EXCEPT !.done = TRUE])

\* Do's first select: done, or default: writeFact starts the write workers
DoStart ==
    /\ fact.pc = "start"
    /\ FactStep(IF fact.done
                THEN [fact EXCEPT !.pc = "waitFact", !.ret = ErrFactorizationCancelled]
                ELSE [fact EXCEPT !.pc = "loop",
                                  !.ww = [w \in WriteWorkers |->
                                            IF @[w].pc = "unborn"
                                            THEN [pc |-> "select", v |-> 0] ELSE @[w]]])

\* one round of the loop over numbers: select on done, err, numCh <- numbers[i]
\* (the default case changes nothing); past the last number waitEnd is called
DoLoop(choice) ==
    /\ fact.pc = "loop"
    /\ IF fact.i = Len(fact.numbers)
       THEN choice = "end" /\ FactStep([fact EXCEPT !.pc = "waitEnd", !.ret = Nil])
       ELSE \/ /\ choice = "done" /\ fact.done
               /\ FactStep([fact EXCEPT !.pc = "waitEnd", !.ret = ErrFactorizationCancelled])
            \/ /\ choice = "err" /\ fact.err # <<>>
               /\ FactStep([fact EXCEPT !.pc = "waitEnd", !.ret = Head(fact.err),
                                        !.err = Tail(@)])
            \/ /\ choice = "send" /\ fact.numCh = <<>> /\ ~fact.numClosed
               /\ FactStep([fact EXCEPT !.numCh = <<fact.numbers[fact.i + 1]>>,
                                        !.i = @ + 1])

\* waitEnd, called after the loop or deferred: once.Do(close(numCh); wgOut.Wait())
DoWaitEnd ==
    /\ fact.pc = "waitEnd"
    /\ FactStep([fact EXCEPT !.numClosed = TRUE, !.pc = "waitOut"])

\* wgOut.Wait() returns; after the loop the last select follows: done, err, default
DoWaitOut(choice) ==
    /\ fact.pc = "waitOut"
    /\ Finished(fact.ww)
    /\ IF fact.ret # Nil
       THEN choice = "deferred" /\ FactStep([fact EXCEPT !.pc = "waitFact"])
       ELSE \/ /\ choice = "done" /\ fact.done
               /\ FactStep([fact EXCEPT !.pc = "waitFact",
                                        !.ret = ErrFactorizationCancelled])
            \/ /\ choice = "err" /\ fact.err # <<>>
               /\ FactStep([fact EXCEPT !.pc = "waitFact",
                                        !.ret = Head(fact.err), !.err = Tail(@)])
            \/ /\ choice = "default" /\ ~fact.done /\ fact.err = <<>>
               /\ FactStep([fact EXCEPT !.pc = "waitFact"])

\* defer wgFact.Wait(): Do returns when every factorization worker has exited
DoWaitFact ==
    /\ fact.pc = "waitFact"
    /\ Finished(fact.fw)
    /\ FactStep([fact EXCEPT !.pc = "returned"])

\* a factorization worker's outer select: done, or v, ok := <-input
FactSelect(f, choice) ==
    /\ fact.pc # "none"
    /\ fact.fw[f].pc = "select"
    /\ \/ /\ choice = "done" /\ fact.done
          /\ FactStep([fact EXCEPT !.fw[f].pc = "exited"])
       \/ /\ choice = "input" /\ fact.numCh # <<>>
          /\ FactStep([fact EXCEPT !.fw[f] = [pc |-> "send", v |-> Head(fact.numCh)],
                                   !.numCh = <<>>])
       \/ /\ choice = "closed" /\ fact.numCh = <<>> /\ fact.numClosed
          /\ FactStep([fact EXCEPT !.fw[f].pc = "exited"])

\* its inner select, case <-done
FactCancelled(f) ==
    /\ fact.pc # "none"
    /\ fact.fw[f].pc = "send"
    /\ fact.done
    /\ FactStep([fact EXCEPT !.fw[f].pc = "exited"])

\* its inner select, case result <- f.factNum(v): result has no buffer, so the
\* send happens together with the receive of a write worker's outer select
FactSend(f, w) ==
    /\ fact.pc # "none"
    /\ fact.fw[f].pc = "send"
    /\ fact.ww[w].pc = "select"
    /\ FactStep([fact EXCEPT !.fw[f] = [pc |-> "select", v |-> 0],
                             !.ww[w] = [pc |-> "inner", v |-> fact.fw[f].v]])

\* go func() { defer close(result); wg.Wait() }()
CloseResult ==
    /\ fact.pc # "none"
    /\ ~fact.resultClosed
    /\ Finished(fact.fw)
    /\ FactStep([fact EXCEPT !.resultClosed = TRUE])

\* a write worker's outer select without a value: done, doneCauseErrWriter,
\* or input closed
WriteSelect(w, choice) ==
    /\ fact.pc # "none"
    /\ fact.ww[w].pc = "select"
    /\ \/ choice = "done" /\ fact.done
       \/ choice = "doneCauseErrWriter" /\ fact.doneCauseErrWriter
       \/ choice = "closed" /\ fact.resultClosed
    /\ FactStep([fact EXCEPT !.ww[w].pc = "exited"])

\* its inner select: done, doneCauseErrWriter, or default: go on to Write
WriteInner(w) ==
    /\ fact.pc # "none"
    /\ fact.ww[w].pc = "inner"
    /\ FactStep(IF fact.done \/ fact.doneCauseErrWriter
                THEN [fact EXCEPT !.ww[w] = [pc |-> "exited", v |-> 0]]
                ELSE [fact EXCEPT !.ww[w].pc = "write"])

\* writer.Write, and on an error
\* once.Do(err <- ...; close(err); close(doneCauseErrWriter))
WriteCall(w, ok) ==
    /\ fact.pc # "none"
    /\ fact.ww[w].pc = "write"
    /\ FactStep(IF ok
                THEN [fact EXCEPT !.ww[w] = [pc |-> "select", v |-> 0],
                                  !.written = @ \cup {fact.ww[w].v}]
                ELSE IF fact.doneCauseErrWriter
                THEN [fact EXCEPT !.ww[w] = [pc |-> "select", v |-> 0]]
                ELSE [fact EXCEPT !.ww[w] = [pc |-> "select", v |-> 0],
                                  !.failed = TRUE,
                                  !.err = <<ErrWriterCaused>>,
                                  !.doneCauseErrWriter = TRUE])

\* the steps of Do and of its goroutines
DoStep ==
    \/ DoStart
    \/ \E choice \in {"end", "done", "err", "send"} : DoLoop(choice)
    \/ DoWaitEnd
    \/ \E choice \in {"deferred", "done", "err", "default"} : DoWaitOut(choice)
    \/ DoWaitFact
    \/ \E f \in FactWorkers : \E choice \in {"done", "input", "closed"} : FactSelect(f, choice)
    \/ \E f \in FactWorkers : FactCancelled(f)
    \/ \E f \in FactWorkers : \E w \in WriteWorkers : FactSend(f, w)
    \/ CloseResult
    \/ \E w \in WriteWorkers :
          \E choice \in {"done", "doneCauseErrWriter", "closed"} : WriteSelect(w, choice)
    \/ \E w \in WriteWorkers : WriteInner(w)
    \/ \E w \in WriteWorkers : \E ok \in BOOLEAN : WriteCall(w, ok)

NextFact == DoStep \/ CloseDone

SpecFact == InitFact /\ [][NextFact]_vars

\* C26: Do terminates with every factorization and write goroutine finished,
\* also when done is never closed and for every interleaving: while done is
\* open and Do has not returned some step of Do or of a goroutine can be
\* taken, Do returns only with all goroutines exited, and after a failed
\* Write the returned error wraps ErrWriterInteraction.
C26_DoTerminates ==
    /\ fact.pc \notin {"none", "returned"} /\ ~fact.done => ENABLED DoStep
    /\ fact.pc = "returned" => Finished(fact.fw) /\ Finished(fact.ww)
    /\ fact.pc = "returned" /\ fact.failed /\ ~fact.done =>
          ErrorsIs(fact.ret, ErrWriterInteraction)

\* ---------------------------------------------------------------------------
\* Pool.List: a tree searched layer by layer
\* ---------------------------------------------------------------------------

MaxNodes == 3
Nodes == 0..MaxNodes
PoolWorkers == 1..MaxWorkers
\* the trees on Nodes with root 0 (start): every other node has a parent
Trees == {t \in [1..MaxNodes -> Nodes] : \A n \in 1..MaxNodes : t[n] < n}

\* searcher(v): the children of v, in order
RECURSIVE Ascending(_)
Ascending(S) ==
    IF S = {} THEN <<>>
    ELSE LET m == CHOOSE x \in S : \A y \in S : x <= y
         IN <<m>> \o Ascending(S \ {m})
Searcher(t, v) == Ascending({n \in 1..MaxNodes : t[n] = v})

\* List is called with a tree below start and a number of workers
ListCalled(t, workers) ==
    [pc |-> "start", tree |-> t, workers |-> workers, ctxDone |-> FALSE,
     inp |-> {}, searched |-> [n \in Nodes |-> 0],
     lw |-> [w \in PoolWorkers |-> [pc |-> "off", nextNodes |-> <<>>]]]

InitPool ==
    /\ IdleService
    /\ IdleLibrary
    /\ IdleApp
    /\ cache = NoCache
    /\ fact = NoFact
    /\ pool \in {ListCalled(t, workers) : t \in Trees, workers \in PoolWorkers}

PoolStep(next) ==
    /\ pool.pc # "none"
    /\ pool' = next
    /\ UNCHANGED <<servicevars, libvars, cache, fact, appvars>>

\* the workers of a layer: for i := 0; i < workers; i++ { go listWorker(...) }
LayerWorkers(workers) ==
    [w \in PoolWorkers |-> [pc |-> IF w <= workers THEN "recv" ELSE "off",
                            nextNodes |-> <<>>]]

\* the caller cancels ctx
PoolCancel ==
    /\ pool.pc \notin {"none", "returned"}
    /\ ~pool.ctxDone
    /\ PoolStep([pool EXCEPT !.ctxDone = TRUE])

\* List's first select: ctx.Done(), or searcher(start), generator(found) and
\* the first layer of workers
ListStart ==
    /\ pool.pc = "start"
    /\ PoolStep(IF pool.ctxDone
                THEN [pool EXCEPT !.pc = "returned"]
                ELSE [pool EXCEPT !.pc = "layer",
                                  !.searched[0] = @ + 1,
                                  !.inp = {Searcher(pool.tree, 0)[i] :
                                              i \in DOMAIN Searcher(pool.tree, 0)},
                                  !.lw = LayerWorkers(pool.workers)])

\* listWorker: v, ok := <-inp; found := searcher(v); nextNodes = append(...)
ListWorkerSearch(w, v) ==
    /\ pool.pc = "layer"
    /\ pool.lw[w].pc = "recv"
    /\ v \in pool.inp
    /\ PoolStep([pool EXCEPT !.inp = @ \ {v},
                             !.searched[v] = @ + 1,
                             !.lw[w].nextNodes = @ \o Searcher(pool.tree, v)])

\* listWorker returns: ctx.Done(), or inp is closed and the worker hands back
\* generator(ctx, nextNodes), nil when it found nothing
ListWorkerReturn(w) ==
    /\ pool.pc = "layer"
    /\ pool.lw[w].pc = "recv"
    /\ pool.ctxDone \/ pool.inp = {}
    /\ PoolStep([pool EXCEPT !.lw[w] = [pc |-> "returned",
                                         nextNodes |-> IF pool.ctxDone THEN <<>> ELSE @.nextNodes]])

\* what fanIn passes on from one worker's channel: each of its goroutines
\* receives once from its channel and sends that value to ans
FanInOne(nextNodes) == IF nextNodes = <<>> THEN {} ELSE {Head(nextNodes)}
FanIn(channels) == UNION {FanInOne(channels[w]) : w \in DOMAIN channels}

\* wg.Wait() returns: ctx.Done(), or the next layer reads fanIn(channels), or
\* no worker handed back a channel and List returns
ListLayerEnd ==
    /\ pool.pc = "layer"
    /\ \A w \in PoolWorkers : pool.lw[w].pc \in {"off", "returned"}
    /\ LET channels == [w \in PoolWorkers |-> pool.lw[w].nextNodes]
       IN PoolStep(IF pool.ctxDone \/ \A w \in PoolWorkers : channels[w] = <<>>
                   THEN [pool EXCEPT !.pc = "returned"]
                   ELSE [pool EXCEPT !.inp = FanIn(channels),
                                     !.lw = LayerWorkers(pool.workers)])

NextPool ==
    \/ PoolCancel
    \/ ListStart
    \/ \E w \in PoolWorkers : \E v \in Nodes : ListWorkerSearch(w, v)
    \/ \E w \in PoolWorkers : ListWorkerReturn(w)
    \/ ListLayerEnd

SpecPool == InitPool /\ [][NextPool]_vars

\* C27: when ctx is not cancelled, searcher is called on start and on every
\* node of the tree below start, each exactly once, and List returns only
\* after all of them were searched.
C27_ListSearchesEveryNode ==
    /\ pool.pc # "none" => \A n \in Nodes : pool.searched[n] <= 1
    /\ pool.pc = "returned" /\ ~pool.ctxDone => \A n \in Nodes : pool.searched[n] = 1

\* ---------------------------------------------------------------------------
\* A handler that panics
\* ---------------------------------------------------------------------------

\* the store after the process has exited: every open transaction is aborted
AbortAll(db) ==
    [o |-> db.o, l |-> [k \in Keys |-> NoTx], p |-> [k \in Keys |-> NoRow]]

\* kindHandler(ctx, message.RawData) panics. Neither the worker nor WithTx
\* recovers: WithTx's deferred function runs while the panic unwinds, with
\* txErr still nil, and the panic then leaves the worker's goroutine, which
\* ends the process with all its workers.
HandlerPanics(w) ==
    /\ wpc[w] = "handle"
    /\ GlobalHandler(wmsgs[w][wi[w]].Kind).err = Nil
    /\ SetDB(AbortAll(IF WithTxDeferred(WithTxPanicTxErr) = "commit"
                      THEN CommitTx(DB, w)
                      ELSE RollbackTx(DB, w)))
    /\ wpc' = [u \in Workers |-> "crashed"]
    /\ wmsgs' = [u \in Workers |-> <<>>]
    /\ wi' = [u \in Workers |-> 0]
    /\ successKeys' = [u \in Workers |-> <<>>]
    /\ failKeys' = [u \in Workers |-> <<>>]
    /\ leasedAt' = [u \in Workers |-> 0]
    /\ txlog' = [t \in DOMAIN txlog |-> IF t \in Workers THEN NoLog ELSE txlog[t]]
    /\ UNCHANGED <<extvars, now, pvars, enabled, cancelled, faults, lost, okCount,
                   calls, cres>>

NextPanic ==
    \/ \E w \in Workers : WTop(w)
    \/ \E w \in Workers, f \in BOOLEAN : WIterate(w, f)
    \/ \E w \in Workers, f \in BOOLEAN : WGet(w, f)
    \/ \E w \in Workers, ok \in BOOLEAN : WHandle(w, ok)
    \/ \E w \in Workers : HandlerPanics(w)
    \/ \E w \in Workers, f \in BOOLEAN : WMarkSuccess(w, f)
    \/ \E w \in Workers, f \in BOOLEAN : WMarkCreated(w, f)
    \/ \E w \in Workers, f \in BOOLEAN : WEnd(w, f)

SpecPanic == InitDelivery /\ [][NextPanic]_vars

\* C28: if a handler panics while a worker processes a leased record, the
\* record is counted as failed like a handler error (its key joins failKeys,
\* to be released with attempts increased), the worker goes on with the rest
\* of the batch and keeps polling.
C28_PanicCountedAsFailure ==
    [][\A w \in Workers :
          HandlerPanics(w) =>
             /\ wpc'[w] \in {"handle", "markS"}
             /\ failKeys'[w] = Append(failKeys[w], wmsgs[w][wi[w]].IdempotencyKey)
             /\ successKeys'[w] = successKeys[w]]_vars

\* C29: when the boundary cannot be opened, or getMessages or a markAs fails
\* in a worker iteration, the iteration stops at that call (the function
\* returns the error: no later store call, and no handler invocation after a
\* failed getMessages), the boundary is rolled back so that the leased
\* records are committed as before the lease, and the worker does not exit
\* but goes back to polling, where the records are due again.
C29_FailedIterationRollsBack ==
    [][\A w \in Workers :
          /\ WIterate(w, TRUE) =>
                /\ wpc'[w] = "top" /\ txlog'[w].fnCalls = 0 /\ txlog'[w].ret # Nil
                /\ UNCHANGED <<dbvars, wmsgs, successKeys, failKeys>>
          /\ (\E f \in BOOLEAN : StoreFails(f) /\ WGet(w, f)) =>
                /\ wpc'[w] = "end" /\ txlog'[w].fnErr = ErrStore
                /\ UNCHANGED <<dbvars, wmsgs, successKeys, failKeys>>
          /\ (\E f \in BOOLEAN : StoreFails(f) /\ (\/ WMarkSuccess(w, f) /\ successKeys[w] # <<>>
                                                   \/ WMarkCreated(w, f) /\ failKeys[w] # <<>>)) =>
                /\ wpc'[w] = "end" /\ txlog'[w].fnErr = ErrStore
                /\ UNCHANGED <<dbvars, wmsgs, successKeys, failKeys>>
          /\ (\E f \in BOOLEAN : WEnd(w, f)) /\ txlog[w].fnErr # Nil =>
                /\ wpc'[w] = "top"
                /\ txlog'[w].rollbacks = 1 /\ txlog'[w].commits = 0
                /\ ErrorsIs(txlog'[w].ret, ErrStore)
                /\ outbox' = outbox
                /\ \A k \in Keys : locks[k] = w => locks'[k] = NoTx /\ pending'[k] = NoRow
                /\ \A k \in KeysOf(wmsgs[w]) :
                      /\ outbox'[k].status \in {Created, InProgress}
                      /\ outbox'[k].attempts <= pending[k].attempts
                      /\ IsDue(outbox'[k], now', LeaseTTL)]_vars

\* a worker has leased a record, invoked its handler, and a markAs has failed:
\* the function has returned the error and the rollback is the next step
C29_MarkFailedAfterLease ==
    \E w \in Workers :
        /\ wpc[w] = "end" /\ txlog[w].fnErr = ErrStore /\ ~cancelled
        /\ Len(wmsgs[w]) > 0
        /\ Len(successKeys[w]) + Len(failKeys[w]) = Len(wmsgs[w])
        /\ \A k \in KeysOf(wmsgs[w]) :
              /\ locks[k] = w /\ pending[k].status = InProgress
              /\ outbox[k].status = Created

C31_GetPicksOldest ==
    [][\A c \in Clients, n \in 1..BatchSize, S \in SUBSET CallerKeys :
          cres'.op = "getMessages" /\ RGet(c, n, S) =>
              LET t == ExtractTx(c)
                  due(r) == \/ r.status = Created
                            \/ r.status = InProgress /\ r.updatedAt < now - LeaseTTL
                  free == {k \in Keys : /\ View(DB, t, k).status # Absent
                                        /\ due(View(DB, t, k))
                                        /\ ~LockedByOther(DB, t, k)}
              IN \A k \in free \ S :
                    /\ Len(cres'.msgs) = n
                    /\ \A i \in DOMAIN cres'.msgs :
                          View(DB, t, cres'.msgs[i].IdempotencyKey).createdAt
                              <= View(DB, t, k).createdAt]_vars

\* a batch was filled with the older of two due records, the younger one was
\* left for a later call
C31_YoungerLeftOut ==
    /\ cres.op = "getMessages" /\ Len(cres.msgs) = BatchSize
    /\ \E k \in Keys \ KeysOf(cres.msgs) :
          /\ Cur(k).status = Created /\ locks[k] = NoTx
          /\ \A j \in KeysOf(cres.msgs) :
                /\ Cur(j).status = InProgress /\ Cur(j).updatedAt = now
                /\ Cur(j).createdAt < Cur(k).createdAt

\* ---------------------------------------------------------------------------
\* The handlers and the HTTP sink
\* ---------------------------------------------------------------------------

\* const statusOk = 2
statusOk == 2

\* what the sink can do with a request: answer with a status, or fail the
\* transport (connection refused or reset)
StatusCodes == {200, 299, 199, 300, 404}
Responses == [err : {Nil}, StatusCode : StatusCodes] \cup
             {[err |-> <<"connection reset">>, StatusCode |-> 0]}

\* json.Unmarshal(data, &entity): fails on input that is not a JSON object; a
\* field the object lacks keeps its zero value
JsonValid(d) == Len(d) % 2 = 0
JsonField(d, name, zero) ==
    IF \E i \in 1..(Len(d) \div 2) : d[2 * i - 1] = name
    THEN d[2 * (CHOOSE i \in 1..(Len(d) \div 2) : d[2 * i - 1] = name)]
    ELSE zero
JsonUnmarshal(d) ==
    IF JsonValid(d)
    THEN [err |-> Nil, ID |-> JsonField(d, "ID", 0)]
    ELSE [err |-> <<"invalid character">>, ID |-> 0]

NoReq == [sent |-> FALSE, body |-> 0]

\* authorOutboxHandler / bookOutboxHandler up to client.Post: the error of
\* json.Unmarshal, or the request with the entity's id as its body
HandlerRequest(data) ==
    LET u == JsonUnmarshal(data)
    IN IF u.err # Nil
       THEN [err |-> Wrap("can not deserialize data in book outbox handler", u.err),
             req |-> NoReq]
       ELSE [err |-> Nil, req |-> [sent |-> TRUE, body |-> u.ID]]

\* a handler that takes every answer of the sink for a success
HandlerResultAnyStatus(response) ==
    IF response.err # Nil
    THEN Wrap("can not make post request to given url", response.err)
    ELSE Nil

\* the handlers after client.Post returned: the transport's error, or
\* errFailRequest when response.StatusCode/100 != statusOk
HandlerResult(response) ==
    IF response.err # Nil
    THEN Wrap("can not make post request to given url", response.err)
    ELSE IF response.StatusCode \div 100 # statusOk
    THEN ErrSink
    ELSE Nil

\* the payloads stored at start-up: an author, a book, bytes that are no JSON
\* object, and a record of a kind without handler
SinkPayloads(id) ==
    {[kind |-> OutboxKindAuthor, data |-> MarshalAuthor([id |-> id, name |-> "Ada"])],
     [kind |-> OutboxKindBook, data |-> MarshalBook([id |-> id, name |-> "Ada", authors |-> {}])],
     [kind |-> OutboxKindAuthor, data |-> <<"?">>],
     [kind |-> OutboxKindUndefined, data |-> MarshalAuthor([id |-> id, name |-> "Ada"])]}

\* the sink answers every request sooner or later, or it accepts requests and
\* never answers
InitSink ==
    /\ \E pl \in [SeedKeys -> UNION {SinkPayloads(i) : i \in Ids}] :
          /\ \A k \in SeedKeys : pl[k] \in SinkPayloads(k[2])
          /\ outbox = [k \in Keys |->
                          IF k \in SeedKeys THEN NewRow(pl[k].kind, pl[k].data, 0)
                          ELSE NoRow]
    /\ InitState
    /\ enabled
    /\ \E silent \in BOOLEAN :
          sink = [silent |-> silent,
                  req |-> [w \in Workers |-> NoReq],
                  invoked |-> [k \in Keys |-> 0],
                  posts |-> [k \in Keys |-> 0]]

\* one pass of the loop over messages up to the handler's request: the
\* lookup, json.Unmarshal, client.Post is called
WInvoke(w) ==
    /\ wpc[w] = "handle"
    /\ ~sink.req[w].sent
    /\ LET message == wmsgs[w][wi[w]]
           key == message.IdempotencyKey
           gh == GlobalHandler(message.Kind)
           rq == HandlerRequest(message.RawData)
       IN IF gh.err # Nil
          THEN HandleMessage(w, FALSE) /\ UNCHANGED sink
          ELSE IF rq.err # Nil
          THEN /\ HandleMessage(w, FALSE)
               /\ sink' = [sink EXCEPT !.invoked[key] = @ + 1]
          ELSE /\ sink' = [sink EXCEPT !.invoked[key] = @ + 1,
                                       !.posts[key] = @ + 1,
                                       !.req[w] = rq.req]
               /\ UNCHANGED <<lres, cursor, cache, fact, pool, conns, stream, now,
                              dbvars, pvars, enabled, cancelled, faults, wvars, lost,
                              txlog, calls, cres>>
    /\ UNCHANGED okCount

\* client.Post returns with the sink's answer and the handler returns
WAnswer(w, response) ==
    /\ wpc[w] = "handle"
    /\ sink.req[w].sent
    /\ ~sink.silent
    /\ HandleMessage(w, HandlerResult(response) = Nil)
    /\ sink' = [sink EXCEPT !.req[w] = NoReq]
    /\ UNCHANGED okCount

\* a worker's steps while it delivers to the sink
SinkWorkerStep(w) ==
    \/ WTop(w)
    \/ \E f \in BOOLEAN : WIterate(w, f)
    \/ \E f \in BOOLEAN : WGet(w, f)
    \/ WInvoke(w)
    \/ \E response \in Responses : WAnswer(w, response)
    \/ \E f \in BOOLEAN : WMarkSuccess(w, f)
    \/ \E f \in BOOLEAN : WMarkCreated(w, f)
    \/ \E f \in BOOLEAN : WEnd(w, f)

NextSink ==
    \/ \E w \in Workers : SinkWorkerStep(w)
    \/ Cancel

SpecSink == InitSink /\ [][NextSink]_vars

\* the message worker w is delivering
Delivering(w) == wmsgs[w][wi[w]]

\* C32: an HTTP sink handler returns ok exactly when the payload deserializes
\* into the entity and the POST (body = the entity id) is answered with a 2xx
\* status; a non-2xx status or a transport error yields a failure; when the
\* payload does not deserialize the handler fails without issuing any HTTP
\* request.
C32_HandlerOkIff2xx ==
    [][\A w \in Workers :
          /\ WInvoke(w) /\ GlobalHandler(Delivering(w).Kind).err = Nil =>
                LET key == Delivering(w).IdempotencyKey
                    data == Delivering(w).RawData
                IN IF data \in {MarshalAuthor([id |-> i, name |-> n]) : i \in Ids, n \in Names}
                              \cup {MarshalBook([id |-> i, name |-> n, authors |-> {}]) :
                                       i \in Ids, n \in Names}
                   THEN /\ sink'.req[w] = [sent |-> TRUE, body |-> key[2]]
                        /\ sink'.posts[key] = sink.posts[key] + 1
                        /\ UNCHANGED <<successKeys, failKeys, wi>>
                   ELSE /\ sink'.req = sink.req /\ sink'.posts = sink.posts
                        /\ failKeys'[w] = Append(failKeys[w], key)
                        /\ UNCHANGED successKeys
          /\ \A response \in Responses :
                WAnswer(w, response) =>
                    LET key == Delivering(w).IdempotencyKey
                    IN /\ sink'.posts = sink.posts
                       /\ IF response.err = Nil /\ response.StatusCode \in 200..299
                          THEN /\ successKeys'[w] = Append(successKeys[w], key)
                               /\ UNCHANGED failKeys
                          ELSE /\ failKeys'[w] = Append(failKeys[w], key)
                               /\ UNCHANGED successKeys]_vars

\* a record whose payload deserializes was posted once, the sink answered
\* with a 2xx status and the worker put it on the success list
C32_PostedAndAnswered ==
    \E w \in Workers : \E k \in SeqSet(successKeys[w]) :
        /\ sink.posts[k] = 1 /\ sink.invoked[k] = 1 /\ ~sink.req[w].sent
        /\ JsonValid(Cur(k).data)
        /\ wpc[w] = "markS"

\* C33: withTx returns a non-nil error exactly when the transaction could
\* not be begun or fn returned an error; a failing Commit or a failing
\* Rollback is only logged and does not change the returned value, so withTx
\* returns nil when fn returned nil and Commit failed (and nothing of the
\* transaction is committed then).
C33_CommitFailureNotReturned ==
    /\ [](\A q \in Procs :
             txlog[q].done => (txlog[q].ret # Nil <=> ~txlog[q].begun \/ txlog[q].fnErr # Nil))
    /\ [][/\ \A w \in Workers : \A f \in BOOLEAN :
                WEnd(w, f) =>
                    /\ txlog'[w].done
                    /\ txlog'[w].ret # Nil <=> txlog[w].fnErr # Nil
                    /\ f => outbox' = outbox
          /\ \A p \in Producers : \A f \in BOOLEAN :
                PEnd(p, f) =>
                    /\ txlog'[p].done
                    /\ txlog'[p].ret # Nil <=> txlog[p].fnErr # Nil
                    /\ txlog[p].fnErr # Nil => ErrorsIs(txlog'[p].ret, txlog[p].fnErr)
                    /\ f => outbox' = outbox
          /\ \A w \in Workers : WIterate(w, TRUE) => txlog'[w].done /\ txlog'[w].ret # Nil]_vars

\* registerAuthor has returned nil although its Commit failed: the function
\* sent the author's record, and the outbox does not hold it
C33_NilAfterFailedCommit ==
    \E p \in Producers : \E id \in Ids :
        /\ ppc[p] = "idle" /\ txlog[p].done /\ txlog[p].begun
        /\ txlog[p].fnErr = Nil /\ txlog[p].ret = Nil /\ txlog[p].commits = 1
        /\ authors[id] # NoName
        /\ outbox[IdempotencyKey(OutboxKindAuthor, id)] = NoRow
        /\ locks[IdempotencyKey(OutboxKindAuthor, id)] = NoTx

\* caller c is inside the function of a withTx call
InBoundary(c) == txlog[c].begun /\ ~txlog[c].done

\* a call of the outbox repository made by c in this step
RepoCall(c) ==
    /\ calls' = calls + 1
    /\ \/ /\ cres'.op = "sendMessage"
          /\ \E pl \in Payloads : RSend(c, cres'.key, pl[1], pl[2])
       \/ /\ cres'.op = "getMessages"
          /\ \E n \in 1..BatchSize : RGet(c, n, KeysOf(cres'.msgs))
       \/ /\ cres'.op = "markAs"
          /\ \E keys \in SUBSET CallerKeys, s \in {Success, Created} : RMark(c, keys, s)

\* C34: sendMessage, getMessages and markAs use the ambient transaction when
\* called inside withTx: their effects become visible to other transactions
\* only when the boundary commits, and are discarded when fn returns an error; called with no boundary open, each runs as its own
\* auto-committed statement and leaves nothing uncommitted behind.
C34_AmbientTransaction ==
    [][\A c \in Clients :
          /\ InBoundary(c) /\ RepoCall(c) =>
                /\ outbox' = outbox
                /\ \A d \in Clients \ {c} : \A k \in Keys : ViewNext(d, k) = View(DB, d, k)
                /\ \A k \in Keys : locks'[k] \in {locks[k], c}
                /\ \A k \in Keys : pending'[k] # pending[k] => locks'[k] = c
          /\ ~InBoundary(c) /\ RepoCall(c) =>
                /\ locks' = locks /\ pending' = pending
                /\ \A k \in Keys : outbox'[k] # outbox[k] => locks[k] = NoTx
          /\ REnd(c, Nil) =>
                /\ \A k \in Keys : outbox'[k] = IF locks[k] = c THEN pending[k] ELSE outbox[k]
                /\ \A k \in Keys : locks'[k] # c
          /\ REnd(c, ErrStore) =>
                /\ outbox' = outbox
                /\ \A k \in Keys : locks'[k] # c
                /\ \A k \in Keys : locks[k] = c => pending'[k] = NoRow]_vars

\* inside one boundary a record was sent and leased: both are uncommitted,
\* the committed table does not hold the record yet
C34_SentAndLeasedInBoundary ==
    \E c \in Clients : \E k \in Keys :
        /\ InBoundary(c)
        /\ cres.op = "getMessages" /\ k \in KeysOf(cres.msgs)
        /\ locks[k] = c /\ pending[k].status = InProgress
        /\ outbox[k].status = Absent

\* C35: when the cancellation signal fires while a worker is inside a
\* handler's HTTP POST or a store call, that call is interrupted and the
\* worker exits: once ctx is cancelled every worker that has not returned has
\* a next step, whatever the sink does, and a worker inside client.Post does
\* not stay there.
C35_CancelInterruptsIO ==
    \A w \in Workers :
        cancelled /\ wpc[w] # "exited" => ENABLED SinkWorkerStep(w)

\* C39: retry is bounded per record: over the whole execution, including
\* iterations in which markAs or the commit fails and the boundary is rolled
\* back, the number of handler invocations made for one record is at most
\* attemptsRetry + 1.
C39_InvocationsBounded ==
    \A k \in Keys : sink.invoked[k] <= AttemptsRetry + 1

\* C36: updateBook(id, ...) changes only the author bindings of book id: for
\* every other book, the set of authors returned by getBook is the same
\* before and after the call, also when that book shares an author that is
\* removed from book id.
C36_UpdateLeavesOtherBooks ==
    [][\A id \in RequestIds : \A name \in RequestNames : \A aids \in SUBSET RequestIds :
          UpdateBook(id, name, aids) =>
              \A b \in LibraryIds \ {id} :
                  /\ GetBook(books', b).err = GetBook(books, b).err
                  /\ GetBook(books', b).book.authors = GetBook(books, b).book.authors]_vars

\* C40: LFU cache: for every capacity that New accepts (every capacity >= 0,
\* including 0) and every sequence of Put, Get and GetKeyFrequency calls, no
\* call panics, Size() <= Capacity() holds after each call, and Size() equals
\* the number of keys for which Get succeeds.
C40_LfuNeverPanics ==
    cache # NoCache =>
        /\ ~cache.panicked
        /\ cache.size <= cache.capacity
        /\ cache.size = Cardinality(Present(cache))

\* the same for the caches of capacity 1 and more
LfuSizeWithinPositiveCapacity ==
    cache # NoCache /\ cache.capacity > 0 => C40_LfuNeverPanics

\* ---------------------------------------------------------------------------
\* The connection pool (pgxpool.Pool) shared by the transactor and the
\* repositories
\* ---------------------------------------------------------------------------

MaxConns == 2
\* the operations that take connections: use-case calls and scheduler workers
ConnOps == Clients \cup Workers
UseCases == {"registerAuthor", "addBook", "getAuthorBooks"}
MaxBooks == 2

NoOp == [kind |-> "none", pc |-> "idle", held |-> 0, rows |-> 0]

\* connections in use, and connections Begin can still acquire
InUse(c) == Cardinality({x \in ConnOps \X (1..2) : x[2] <= c.ops[x[1]].held})
Free(c) == c.size - InUse(c)

InitConns ==
    /\ IdleService
    /\ IdleLibrary
    /\ cache = NoCache /\ fact = NoFact /\ pool = NoPool
    /\ sink = NoSink /\ stream = NoStream
    /\ conns \in {[size |-> n, ops |-> [o \in ConnOps |-> NoOp]] : n \in 1..MaxConns}

ConnStep(o, op) ==
    /\ conns # NoConns
    /\ conns' = [conns EXCEPT !.ops[o] = op]
    /\ UNCHANGED <<servicevars, libvars, cache, fact, pool, sink, stream>>

\* a use case is called, or a worker starts an iteration: the next thing is
\* the Begin of WithTx or of GetAuthorBooks
ConnCall(o, kind, rows) ==
    /\ conns # NoConns
    /\ conns.ops[o].pc = "idle"
    /\ IF o \in Workers THEN kind = "worker" ELSE kind \in UseCases
    /\ IF kind = "getAuthorBooks" THEN rows \in 0..MaxBooks ELSE rows = 0
    /\ ConnStep(o, [kind |-> kind, pc |-> "begin", held |-> 0, rows |-> rows])

\* pool.Begin of injectTx (WithTx) or p.db.Begin of GetAuthorBooks: acquires
\* a connection, waits while the pool has none
ConnBegin(o) ==
    /\ conns # NoConns
    /\ conns.ops[o].pc = "begin"
    /\ Free(conns) > 0
    /\ ConnStep(o, [conns.ops[o] EXCEPT
                       !.held = 1,
                       !.pc = CASE conns.ops[o].kind = "worker" -> "fn"
                                [] conns.ops[o].kind = "getAuthorBooks" -> "fetch"
                                [] OTHER -> "repoBegin"])

\* postgresRepository.RegisterAuthor / AddBook inside the function of WithTx:
\* tx, err := p.db.Begin(ctx) acquires a connection of its own
ConnRepoBegin(o) ==
    /\ conns # NoConns
    /\ conns.ops[o].pc = "repoBegin"
    /\ Free(conns) > 0
    /\ ConnStep(o, [conns.ops[o] EXCEPT !.held = 2, !.pc = "repoEnd"])

\* the repository's tx.Commit / makeRollBack gives its connection back;
\* SendMessage then runs on the transaction of WithTx
ConnRepoEnd(o) ==
    /\ conns # NoConns
    /\ conns.ops[o].pc = "repoEnd"
    /\ ConnStep(o, [conns.ops[o] EXCEPT !.held = 1, !.pc = "fn"])

\* the function of WithTx returns (a worker's GetMessages, handlers and MarkAs
\* all ran on the transaction of WithTx) and the deferred Commit / Rollback
\* gives the connection back
ConnEnd(o) ==
    /\ conns # NoConns
    /\ conns.ops[o].pc = "fn"
    /\ ConnStep(o, NoOp)

\* GetAuthorBooks' goroutine: FETCH; no row read: Commit, the connection goes
\* back; else GetBook is called for the row
ConnFetch(o) ==
    /\ conns # NoConns
    /\ conns.ops[o].pc = "fetch"
    /\ ConnStep(o, IF conns.ops[o].rows = 0 THEN NoOp
                   ELSE [conns.ops[o] EXCEPT !.pc = "getBookBegin"])

\* postgresRepository.GetBook: tx, err := p.db.Begin(ctx)
ConnGetBookBegin(o) ==
    /\ conns # NoConns
    /\ conns.ops[o].pc = "getBookBegin"
    /\ Free(conns) > 0
    /\ ConnStep(o, [conns.ops[o] EXCEPT !.held = 2, !.pc = "getBookEnd"])

\* GetBook's deferred makeRollBack
ConnGetBookEnd(o) ==
    /\ conns # NoConns
    /\ conns.ops[o].pc = "getBookEnd"
    /\ ConnStep(o, [conns.ops[o] EXCEPT !.held = 1, !.rows = @ - 1, !.pc = "fetch"])

NextConns ==
    \/ \E o \in ConnOps : \E kind \in UseCases \cup {"worker"} : \E rows \in 0..MaxBooks :
          ConnCall(o, kind, rows)
    \/ \E o \in ConnOps : ConnBegin(o)
    \/ \E o \in ConnOps : ConnRepoBegin(o)
    \/ \E o \in ConnOps : ConnRepoEnd(o)
    \/ \E o \in ConnOps : ConnEnd(o)
    \/ \E o \in ConnOps : ConnFetch(o)
    \/ \E o \in ConnOps : ConnGetBookBegin(o)
    \/ \E o \in ConnOps : ConnGetBookEnd(o)

SpecConns == InitConns /\ [][NextConns]_vars

\* the operation holds a connection and waits in Begin for a further one
WaitsForFurther(c, o) == c.ops[o].pc \in {"repoBegin", "getBookBegin"}

\* C37: with a connection pool of any size >= 1, concurrent use-case calls
\* (registerAuthor, addBook, getAuthorBooks) and scheduler workers all
\* complete: no reachable state has every pooled connection held by an
\* operation that is itself waiting to acquire a further connection.
C37_NoPoolDeadlock ==
    conns # NoConns =>
        ~(/\ Free(conns) = 0
          /\ \A o \in ConnOps : conns.ops[o].held > 0 => WaitsForFurther(conns, o))

\* ---------------------------------------------------------------------------
\* The stream of getAuthorBooks: the repository's goroutine -> books (buffer
\* of FetchSize) -> the use case's goroutine -> ans (no buffer) -> the
\* controller's loop -> server.Send
\* ---------------------------------------------------------------------------

\* GetAuthorBooks has returned at all three layers: the cursor is declared
\* over the author's rows, both goroutines run, the controller ranges over ans
StreamOpened(rows) ==
    [ctxDone |-> FALSE, rows |-> rows, tx |-> "open",
     repo |-> [pc |-> "fetch", batch |-> 0],
     books |-> 0, booksClosed |-> FALSE,
     lib |-> "recv", ansClosed |-> FALSE,
     ctrl |-> "recv", sent |-> 0]

InitStream ==
    /\ IdleService
    /\ IdleLibrary
    /\ cache = NoCache /\ fact = NoFact /\ pool = NoPool
    /\ sink = NoSink /\ conns = NoConns
    /\ stream \in {StreamOpened(rows) : rows \in 0..MaxBooks}

StreamStep(next) ==
    /\ stream # NoStream
    /\ stream' = next
    /\ UNCHANGED <<servicevars, libvars, cache, fact, pool, sink, conns>>

\* the request's context is cancelled
StreamCancel ==
    /\ stream # NoStream
    /\ ~stream.ctxDone
    /\ StreamStep([stream EXCEPT !.ctxDone = TRUE])

\* the repository goroutine leaves: close(ans), makeRollBack (a no-op after Commit)
RepoExited(st) ==
    [st EXCEPT !.repo = [pc |-> "exited", batch |-> 0], !.booksClosed = TRUE,
               !.tx = "ended"]

\* rows, err := tx.Query(ctx, "FETCH 10 FROM booksCursor"): an error (ctx is
\* cancelled, or the store fails) ends the goroutine, no row read ends it
\* with Commit, else the rows are sent one by one
StreamFetch(f) ==
    /\ stream # NoStream
    /\ stream.repo.pc = "fetch"
    /\ LET n == Min(FetchSize, stream.rows)
       IN StreamStep(IF f \/ stream.ctxDone \/ n = 0
                     THEN RepoExited(stream)
                     ELSE [stream EXCEPT !.repo = [pc |-> "send", batch |-> n],
                                         !.rows = @ - n])

\* book, _ := p.GetBook(ctx, id); ans <- book: waits while the buffer is full
StreamRepoSend ==
    /\ stream # NoStream
    /\ stream.repo.pc = "send"
    /\ stream.books < FetchSize
    /\ StreamStep([stream EXCEPT
                      !.books = @ + 1,
                      !.repo = IF stream.repo.batch = 1
                               THEN [pc |-> "fetch", batch |-> 0]
                               ELSE [pc |-> "send", batch |-> stream.repo.batch - 1]])

\* the use case's goroutine: for b := range books; defer close(ans)
StreamLibRecv ==
    /\ stream # NoStream
    /\ stream.lib = "recv"
    /\ \/ /\ stream.books > 0
          /\ StreamStep([stream EXCEPT !.books = @ - 1, !.lib = "send"])
       \/ /\ stream.books = 0 /\ stream.booksClosed
          /\ StreamStep([stream EXCEPT !.lib = "exited", !.ansClosed = TRUE])

\* ans <- convertBook(&b): ans has no buffer, the send happens together with
\* the receive of the controller's range loop
StreamLibSend ==
    /\ stream # NoStream
    /\ stream.lib = "send"
    /\ stream.ctrl = "recv"
    /\ StreamStep([stream EXCEPT !.lib = "recv", !.ctrl = "send"])

\* the controller's loop ends when ans is closed: return nil
StreamCtrlEnd ==
    /\ stream # NoStream
    /\ stream.ctrl = "recv"
    /\ stream.lib = "exited" /\ stream.ansClosed
    /\ StreamStep([stream EXCEPT !.ctrl = "returned"])

\* err = server.Send(bk): on an error the controller returns DataLoss at
\* once; Send fails once the stream's context is cancelled
StreamCtrlSend(ok) ==
    /\ stream # NoStream
    /\ stream.ctrl = "send"
    /\ ok => ~stream.ctxDone
    /\ StreamStep(IF ok THEN [stream EXCEPT !.ctrl = "recv", !.sent = @ + 1]
                        ELSE [stream EXCEPT !.ctrl = "returned"])

\* the steps of the two producing goroutines
StreamGoroutineStep ==
    \/ \E f \in BOOLEAN : StreamFetch(f)
    \/ StreamRepoSend
    \/ StreamLibRecv
    \/ StreamLibSend

NextStream ==
    \/ StreamGoroutineStep
    \/ StreamCtrlEnd
    \/ \E ok \in BOOLEAN : StreamCtrlSend(ok)
    \/ StreamCancel

SpecStream == InitStream /\ [][NextStream]_vars

\* both goroutines have returned and the cursor's transaction is ended
StreamCleanedUp(st) == st.repo.pc = "exited" /\ st.lib = "exited" /\ st.tx = "ended"

\* C38: if the consumer of a getAuthorBooks sequence stops reading before the
\* end (sending to the stream failed) or the request is cancelled, both
\* producing goroutines terminate and the store transaction holding the
\* cursor is ended: once the controller has returned, either both goroutines
\* have returned and the transaction is ended, or one of them can take a
\* step; none stays blocked on a channel send.
C38_StreamCleansUp ==
    stream # NoStream /\ stream.ctrl = "returned" =>
        \/ StreamCleanedUp(stream)
        \/ ENABLED StreamGoroutineStep

====
